---- MODULE Spec2Model ----
(***************************************************************************)
(* Model of the circuit breaker gate of src/src/safety/circuit_breakers.py *)
(* (class PerformanceCircuitBreakers) and, further down, of the stress     *)
(* tests of src/src/risk/stress_testing.py (class StressTesting) and of    *)
(* the profit calibration of src/src/risk/profit_calibration.py (class     *)
(* ProfitCalibration).                                                     *)
(*                                                                         *)
(* Units.  Floats of the source are integers here:                         *)
(*   - expected_profit, daily_pnl, max_daily_loss: multiples of 0.01       *)
(*     (max_daily_loss = 0.05 is 5);                                       *)
(*   - expected_profit_percentage, min_profit_threshold: multiples of      *)
(*     0.0005 (min_profit_threshold = 0.001 is 2, half of it is 1);        *)
(*   - gas_price, max_gas_price: Gwei (200000000000 wei is 200);           *)
(*   - time.time(): ticks of 12 hours, so the 86400 s of a trading day are *)
(*     2 ticks; cooldown_period is configured in the same ticks.           *)
(***************************************************************************)
EXTENDS Integers, Sequences, FiniteSets, TLC

VARIABLES
    config,            \* self.config (CircuitBreakerConfig), fixed at construction
    now,               \* the reading of time.time()
    breakers,          \* self.breakers
    trading_history,   \* self.trading_history
    daily_pnl,         \* self.daily_pnl
    last_reset_time,   \* self.last_reset_time
    n_calls,           \* number of monitor_trade_execution calls made (trade ids)
    n_ops,             \* number of calls made on the gate that can change it
    trade,             \* the trade of the last monitor_trade_execution call
    monitoring_result, \* the dict that call returned
    loss_streak,       \* history variable: losing trades evaluated in a row since
                       \* the last non-losing trade or successful reset
    stop_time,         \* history variable: time of the last emergency_stop, or Never
    ready,             \* the event loop's queue of ready handles (FIFO)
    tasks,             \* in-flight monitor_trade_execution coroutines, by trade id
    portfolio,         \* the portfolio dict passed to run_comprehensive_stress_tests
    rng_state,         \* the state of numpy's global generator (np.random)
    seed,              \* history variable: rng_state when the run was started
    run_pc,            \* position of the run_comprehensive_stress_tests coroutine
    cancel_requested,  \* cancel() has been called on the task of that coroutine
    scenario_tasks,    \* the _run_single_scenario tasks of the gather, in list order
    report,            \* the dict the run returned (stress_test_results)
    summary,           \* the dict _generate_executive_summary returned for report
    scenarios,         \* self.scenarios, the catalog of the stress tests
    modified_portfolio,\* the dict sensitivity_analysis made for its last run
    sensitivity,       \* the sensitivity_analysis coroutine: its position, its
                       \* arguments and its results so far
    strategies,        \* the list passed to calibrate_risk_profit_profile
    calibration        \* what that call returned or raised

vars == <<config, now, breakers, trading_history, daily_pnl, last_reset_time,
          n_calls, n_ops, trade, monitoring_result, loss_streak, stop_time,
          ready, tasks, portfolio, rng_state, seed, run_pc, cancel_requested,
          scenario_tasks, report, summary, scenarios, modified_portfolio,
          sensitivity, strategies, calibration>>

gate_vars == <<breakers, trading_history, daily_pnl, last_reset_time>>

\* The variables of the circuit breaker gate and of its callers.
breaker_vars == <<config, now, breakers, trading_history, daily_pnl,
                  last_reset_time, n_calls, n_ops, trade, monitoring_result,
                  loss_streak, stop_time, ready, tasks>>

\* The variables that the actions of a stress run leave as they are.
sensitivity_vars == <<modified_portfolio, sensitivity>>

\* The variables of the profit calibration (src/src/risk/profit_calibration.py).
calibration_vars == <<strategies, calibration>>

other_vars == <<scenarios, sensitivity_vars, calibration_vars>>

\* The variables of the stress tests (src/src/risk/stress_testing.py).
stress_vars == <<portfolio, rng_state, seed, run_pc, cancel_requested,
                 scenario_tasks, report, summary, other_vars>>

-----------------------------------------------------------------------------
(* Bounds of the model *)

MaxOps == 3             \* calls on the gate in one behaviour
MaxTicks == 2           \* clock ticks in one behaviour
MaxInFlight == 2        \* monitor_trade_execution coroutines in flight at once

(* Program constants, in the units above *)

StartTime == 2          \* time.time() at construction: the epoch (0) lies further
                        \* back than the configured cooldown
SecondsPerDay == 2      \* 86400 s
HistoryLimit == 2       \* "Keep only last 1000 trades", scaled to the model's runs

Never == 0 - 1

BreakerNames == <<"daily_loss", "consecutive_losses", "gas_price", "profitability">>
Names == {BreakerNames[i] : i \in 1..4}

\* CircuitBreakerConfig: the defaults (cooldown_period in ticks), and the same
\* with max_consecutive_losses = 0.
Configs ==
    [max_daily_loss : {5},
     max_single_loss : {2},
     max_consecutive_losses : {0, 2},
     max_gas_price : {200},
     min_profit_threshold : {2},
     cooldown_period : {2}]

Proposal(expected_profit, expected_profit_percentage, gas_price) ==
    [expected_profit |-> expected_profit,
     expected_profit_percentage |-> expected_profit_percentage,
     gas_price |-> gas_price]

\* The trade proposals a caller passes (the id is given by the call): wins, a
\* flat trade, losses inside and beyond the daily limit, a profit percentage
\* at the floor (2), between half the floor and the floor (1) and below half the floor (0),
\* a gas price at the ceiling (200) and above it (201).
Proposals ==
    {Proposal(2, 2, 200), Proposal(2, 1, 200), Proposal(2, 2, 201),
     Proposal(2, 1, 201), Proposal(2, 0, 201), Proposal(0, 0, 200),
     Proposal(0 - 2, 2, 200), Proposal(0 - 4, 2, 200), Proposal(0 - 4, 0, 200),
     Proposal(0 - 6, 2, 200), Proposal(0 - 6, 0, 201)}

NoTrade == [id |-> 0]
NoResult == [trade_id |-> 0]
NoReport == [stress_test_id |-> "none"]
NoSummary == [overall_risk_level |-> "none"]

-----------------------------------------------------------------------------
(* Helpers for Python values *)

Abs(x) == IF x < 0 THEN 0 - x ELSE x

Max(a, b) == IF a > b THEN a ELSE b

\* d[k] = v on a dict
SetKey(d, k, v) == [x \in (DOMAIN d) \cup {k} |-> IF x = k THEN v ELSE d[x]]

HasKey(d, k) == k \in DOMAIN d

\* trade.get(key, 0)
Get(tr, key) == IF HasKey(tr, key) THEN tr[key] ELSE 0

\* The value under key is a number (an absent key reads as the default 0).
\* A trade dict lists under non_numeric the keys whose value is not one (None,
\* a str): arithmetic and ordering comparisons of it with a number raise TypeError.
Numeric(tr, key) == ~(HasKey(tr, "non_numeric") /\ key \in tr.non_numeric)

\* The outcome of a check coroutine that raised.
Raised == [raised |-> "TypeError"]

\* The state of the gate object as one value, for the operators below.
Gate == [breakers |-> breakers, trading_history |-> trading_history,
         daily_pnl |-> daily_pnl, last_reset_time |-> last_reset_time]

-----------------------------------------------------------------------------
(* __init__ *)

InitBreakers ==
    [daily_loss |-> [triggered |-> FALSE, last_trigger |-> 0],
     consecutive_losses |-> [triggered |-> FALSE, count |-> 0],
     gas_price |-> [triggered |-> FALSE, last_trigger |-> 0],
     profitability |-> [triggered |-> FALSE, last_trigger |-> 0]]

GateInit ==
    /\ config \in Configs
    /\ now = StartTime
    /\ breakers = InitBreakers
    /\ trading_history = <<>>
    /\ daily_pnl = 0
    /\ last_reset_time = StartTime
    /\ n_calls = 0
    /\ n_ops = 0
    /\ trade = NoTrade
    /\ monitoring_result = NoResult
    /\ loss_streak = 0
    /\ stop_time = Never
    /\ ready = <<>>
    /\ tasks = <<>>

\* StressTesting.__init__: the catalog of stress scenarios (probability in
\* percent points).
Scenarios ==
    <<[name |-> "2020-style Flash Crash", scenario_type |-> "flash_crash",
       parameters |-> [volatility_spike |-> 15, liquidity_drop |-> 80,
                       price_decline |-> 35, recovery_time_hours |-> 6],
       probability |-> 5, severity |-> "extreme"],
      [name |-> "Ethereum Gas Crisis", scenario_type |-> "gas_spike",
       parameters |-> [gas_price_gwei |-> 500, network_congestion |-> 90,
                       failed_transaction_rate |-> 30, duration_hours |-> 24],
       probability |-> 15, severity |-> "high"],
      [name |-> "Major Exchange Outage", scenario_type |-> "exchange_outage",
       parameters |-> [available_exchanges |-> 1, slippage_increase |-> 100,
                       withdrawal_delay_hours |-> 12],
       probability |-> 8, severity |-> "medium"],
      [name |-> "DeFi Liquidity Crisis", scenario_type |-> "liquidity_crisis",
       parameters |-> [tvl_drop |-> 60, yield_compression |-> 2,
                       impermanent_loss_multiplier |-> 3, protocol_failures |-> 2],
       probability |-> 12, severity |-> "high"],
      [name |-> "Regulatory Crackdown", scenario_type |-> "regulatory_shock",
       parameters |-> [jurisdiction_restrictions |-> 3,
                       compliance_costs_multiplier |-> 250,
                       market_confidence_drop |-> 40, legal_fees_millions |-> 5],
       probability |-> 3, severity |-> "extreme"]>>

NoPortfolio == [non_numeric |-> {"none"}]

NoSensitivity == [pc |-> "none"]

NoCalibration == [error |-> "none"]

\* The catalog as __init__ leaves it; no sensitivity analysis has been started
\* and no calibration asked for.
OtherIdle ==
    /\ scenarios = Scenarios
    /\ modified_portfolio = NoPortfolio
    /\ sensitivity = NoSensitivity
    /\ calibration = NoCalibration

\* No stress test has been started.
Init ==
    /\ GateInit
    /\ portfolio = [non_numeric |-> {}]
    /\ rng_state = 0
    /\ seed = 0
    /\ run_pc = "none"
    /\ cancel_requested = FALSE
    /\ scenario_tasks = <<>>
    /\ report = NoReport
    /\ summary = NoSummary
    /\ OtherIdle
    /\ strategies = <<>>

-----------------------------------------------------------------------------
(* The four checks.  Each takes the gate state g and returns the new gate  *)
(* state and the check's result dict.                                      *)

\* (a trigger that keeps the time of the first trigger of a triggered breaker)
Trip_KeepFirst(b, t) ==
    IF b.triggered THEN b
    ELSE SetKey(SetKey(b, "triggered", TRUE), "last_trigger", t)

\* breaker['triggered'] = True; breaker['last_trigger'] = time.time()
Trip(b, t) == SetKey(SetKey(b, "triggered", TRUE), "last_trigger", t)

reset_daily_if_needed(g, t) ==
    IF t - g.last_reset_time >= SecondsPerDay
    THEN [g EXCEPT !.daily_pnl = 0, !.last_reset_time = t]
    ELSE g

DailyLossExceeded(projected_pnl) ==
    projected_pnl < 0 - Abs(config.max_daily_loss)

check_daily_loss_breaker(g, tr, t) ==
    LET g1 == reset_daily_if_needed(g, t)
        projected_pnl == g1.daily_pnl + Get(tr, "expected_profit")
    IN  IF ~Numeric(tr, "expected_profit")
        THEN [g |-> g1, result |-> Raised]
        ELSE IF DailyLossExceeded(projected_pnl)
        THEN [g |-> [g1 EXCEPT !.breakers.daily_loss = Trip(@, t)],
              result |-> [triggered |-> TRUE, breaker |-> "daily_loss",
                          message |-> <<"Daily loss limit exceeded", projected_pnl>>]]
        ELSE [g |-> g1,
              result |-> [triggered |-> FALSE, breaker |-> "daily_loss"]]

IsLoss(expected_profit) == expected_profit < 0

StreakReached_Late(count) == count > config.max_consecutive_losses

StreakReached(count) == count >= config.max_consecutive_losses

check_consecutive_loss_breaker(g, tr, t) ==
    LET count == IF IsLoss(Get(tr, "expected_profit"))
                 THEN g.breakers.consecutive_losses.count + 1
                 ELSE 0
        g1 == [g EXCEPT !.breakers.consecutive_losses.count = count]
    IN  IF ~Numeric(tr, "expected_profit")
        THEN [g |-> g, result |-> Raised]
        ELSE IF StreakReached(count)
        THEN [g |-> [g1 EXCEPT !.breakers.consecutive_losses = Trip(@, t)],
              result |-> [triggered |-> TRUE, breaker |-> "consecutive_losses",
                          message |-> <<"Consecutive losses", count>>]]
        ELSE [g |-> g1,
              result |-> [triggered |-> FALSE, breaker |-> "consecutive_losses"]]

GasTooHigh_OffByOne(gas_price) == gas_price > config.max_gas_price + 1

GasTooHigh(gas_price) == gas_price > config.max_gas_price

check_gas_price_breaker(g, tr, t) ==
    IF ~Numeric(tr, "gas_price")
    THEN [g |-> g, result |-> Raised]
    ELSE IF GasTooHigh(Get(tr, "gas_price"))
    THEN [g |-> [g EXCEPT !.breakers.gas_price = Trip(@, t)],
          result |-> [triggered |-> TRUE, breaker |-> "gas_price",
                      message |-> <<"Gas price too high", Get(tr, "gas_price")>>]]
    ELSE [g |-> g,
          result |-> [triggered |-> FALSE, breaker |-> "gas_price"]]

BelowFloor(pct) == pct < config.min_profit_threshold

FarBelowFloor_AtFloor(pct) == pct < config.min_profit_threshold

\* pct < min_profit_threshold * 0.5
FarBelowFloor(pct) == 2 * pct < config.min_profit_threshold

check_profitability_breaker(g, tr, t) ==
    LET pct == Get(tr, "expected_profit_percentage")
        warning_msg == <<"Low profitability", pct>>
    IN  IF ~Numeric(tr, "expected_profit_percentage")
        THEN [g |-> g, result |-> Raised]
        ELSE IF BelowFloor(pct)
        THEN IF FarBelowFloor(pct)
             THEN [g |-> [g EXCEPT !.breakers.profitability = Trip(@, t)],
                   result |-> [triggered |-> TRUE, breaker |-> "profitability",
                               message |-> warning_msg]]
             ELSE [g |-> g,
                   result |-> [triggered |-> FALSE, breaker |-> "profitability",
                               warning |-> warning_msg]]
        ELSE [g |-> g,
              result |-> [triggered |-> FALSE, breaker |-> "profitability"]]

\* checks = [...]: the k-th coroutine of the list
Check(k, g, tr, t) ==
    CASE k = 1 -> check_daily_loss_breaker(g, tr, t)
      [] k = 2 -> check_consecutive_loss_breaker(g, tr, t)
      [] k = 3 -> check_gas_price_breaker(g, tr, t)
      [] k = 4 -> check_profitability_breaker(g, tr, t)

\* (a gather that stops at the first check that triggers)
RunChecks_ShortCircuit(g, tr, t) ==
    LET c1 == Check(1, g, tr, t)
        c2 == Check(2, c1.g, tr, t)
        c3 == Check(3, c2.g, tr, t)
        c4 == Check(4, c3.g, tr, t)
    IN  IF c1.result.triggered
        THEN [g |-> c1.g, check_results |-> <<c1.result>>]
        ELSE IF c2.result.triggered
        THEN [g |-> c2.g, check_results |-> <<c1.result, c2.result>>]
        ELSE IF c3.result.triggered
        THEN [g |-> c3.g, check_results |-> <<c1.result, c2.result, c3.result>>]
        ELSE [g |-> c4.g,
              check_results |-> <<c1.result, c2.result, c3.result, c4.result>>]

\* check_results = await asyncio.gather(*checks), nothing else running: the
\* four coroutines run in the order of the list, each on the state the one
\* before it left, and gather returns their results in that order.
RunChecks(g, tr, t) ==
    LET c1 == Check(1, g, tr, t)
        c2 == Check(2, c1.g, tr, t)
        c3 == Check(3, c2.g, tr, t)
        c4 == Check(4, c3.g, tr, t)
    IN  [g |-> c4.g,
         check_results |-> <<c1.result, c2.result, c3.result, c4.result>>]

-----------------------------------------------------------------------------
(* monitor_trade_execution, after the gather: the loop over check_results  *)

RECURSIVE Collect(_, _)
Collect(m, results) ==
    IF results = <<>> THEN m
    ELSE LET result == Head(results)
             m1 == IF result.triggered
                   THEN [m EXCEPT
                           !.breakers_triggered = Append(@, result.breaker),
                           !.allowed_to_proceed = FALSE,
                           !.warnings = Append(@, result.message)]
                   ELSE m
             m2 == IF HasKey(result, "warning")
                   THEN [m1 EXCEPT !.warnings = Append(@, result.warning)]
                   ELSE m1
         IN  Collect(m2, Tail(results))

NewResult(tr) ==
    [trade_id |-> Get(tr, "id"), breakers_triggered |-> <<>>,
     allowed_to_proceed |-> TRUE, warnings |-> <<>>]

\* (a history that drops the newest record when it is full)
update_trading_history_DropNewest(g, tr, t) ==
    LET h == Append(g.trading_history,
                    [timestamp |-> t, trade_id |-> Get(tr, "id"),
                     expected_profit |-> Get(tr, "expected_profit"),
                     actual_profit |-> 0, gas_used |-> 0, status |-> "executed"])
    IN  [g EXCEPT !.trading_history =
            IF Len(h) > HistoryLimit THEN SubSeq(h, 1, Len(h) - 1) ELSE h]

update_trading_history(g, tr, t) ==
    LET h == Append(g.trading_history,
                    [timestamp |-> t, trade_id |-> Get(tr, "id"),
                     expected_profit |-> Get(tr, "expected_profit"),
                     actual_profit |-> 0, gas_used |-> 0, status |-> "executed"])
    IN  [g EXCEPT !.trading_history =
            IF Len(h) > HistoryLimit THEN Tail(h) ELSE h]

-----------------------------------------------------------------------------
(* reset_breaker, get_breaker_status, emergency_stop *)

CooldownElapsed_NoWait(b, t) == t - b.last_trigger >= 0

CooldownElapsed(b, t) == t - b.last_trigger >= config.cooldown_period

\* The value returned, or "KeyError" when breaker['last_trigger'] is absent.
reset_breaker_ret(g, breaker_name, t) ==
    IF breaker_name \in DOMAIN g.breakers
    THEN IF ~HasKey(g.breakers[breaker_name], "last_trigger")
         THEN "KeyError"
         ELSE IF CooldownElapsed(g.breakers[breaker_name], t) THEN "True" ELSE "False"
    ELSE "False"

\* (a reset that leaves the counter of consecutive_losses as it is)
ClearBreaker_KeepCount(b, breaker_name) == [b EXCEPT !.triggered = FALSE]

ClearBreaker(b, breaker_name) ==
    LET b1 == [b EXCEPT !.triggered = FALSE]
    IN  IF breaker_name = "consecutive_losses" THEN [b1 EXCEPT !.count = 0] ELSE b1

\* (a successful reset that clears the flag of every breaker)
reset_breaker_state_All(g, breaker_name, t) ==
    IF reset_breaker_ret(g, breaker_name, t) = "True"
    THEN [g EXCEPT !.breakers =
            [name \in DOMAIN g.breakers |-> ClearBreaker(g.breakers[name], name)]]
    ELSE g

reset_breaker_state(g, breaker_name, t) ==
    IF reset_breaker_ret(g, breaker_name, t) = "True"
    THEN [g EXCEPT !.breakers[breaker_name] = ClearBreaker(@, breaker_name)]
    ELSE g

StatusOf(g, name, t) ==
    LET b == g.breakers[name]
        s == [triggered |-> b.triggered, last_trigger |-> b.last_trigger,
              cooldown_remaining |->
                  Max(0, config.cooldown_period - (t - b.last_trigger))]
    IN  IF name = "consecutive_losses" THEN SetKey(s, "current_count", b.count) ELSE s

get_breaker_status_ret(g, t) ==
    IF \E name \in DOMAIN g.breakers : ~HasKey(g.breakers[name], "last_trigger")
    THEN "KeyError"
    ELSE [breakers |-> [name \in DOMAIN g.breakers |-> StatusOf(g, name, t)],
          daily_pnl |-> g.daily_pnl,
          active_trades |-> Len(g.trading_history),
          system_health |->
              IF \A name \in DOMAIN g.breakers : ~g.breakers[name].triggered
              THEN "healthy" ELSE "degraded"]

\* (triggers every breaker without stamping it, as _graceful_shutdown does)
emergency_stop_state_NoStamp(g, t) ==
    [g EXCEPT !.breakers =
        [name \in DOMAIN g.breakers |-> SetKey(g.breakers[name], "triggered", TRUE)]]

emergency_stop_state(g, t) ==
    [g EXCEPT !.breakers = [name \in DOMAIN g.breakers |-> Trip(g.breakers[name], t)]]

-----------------------------------------------------------------------------------------------------------------------------------------------------
(* monitor_trade_execution as a whole: the gate it leaves and what it returns *)

\* An exception of a check leaves gather at the await (the first one in the
\* order of the list), after all four check tasks have run: the coroutine
\* ends there, before the loop over the results and the history update.
monitor_trade_execution(g, tr, t) ==
    LET checked == RunChecks(g, tr, t)
    IN  IF \E k \in 1..Len(checked.check_results) :
               HasKey(checked.check_results[k], "raised")
        THEN [g |-> checked.g,
              ret |-> [trade_id |-> Get(tr, "id"), raised |-> "TypeError"]]
        ELSE [g |-> update_trading_history(checked.g, tr, t),
              ret |-> Collect(NewResult(tr), checked.check_results)]

\* The dict a caller passes for proposal p as the id-th trade.
TradeOf(p, id) == [id |-> id] @@ p

-----------------------------------------------------------------------------
(* Actions: one call each, run to completion *)

SetGate(g) ==
    /\ breakers' = g.breakers
    /\ trading_history' = g.trading_history
    /\ daily_pnl' = g.daily_pnl
    /\ last_reset_time' = g.last_reset_time

MonitorTradeExecution(p) ==
    /\ n_ops < MaxOps
    /\ LET tr == TradeOf(p, n_calls + 1)
           out == monitor_trade_execution(Gate, tr, now)
       IN  /\ SetGate(out.g)
           /\ trade' = tr
           /\ monitoring_result' = out.ret
           /\ loss_streak' = IF ~Numeric(tr, "expected_profit") THEN loss_streak
                              ELSE IF Get(tr, "expected_profit") < 0
                              THEN loss_streak + 1 ELSE 0
    /\ n_calls' = n_calls + 1
    /\ n_ops' = n_ops + 1
    /\ UNCHANGED <<stress_vars, config, now, stop_time, ready, tasks>>

\* Between two calls the caller has taken the dict the last call returned.
Returned ==
    /\ trade' = NoTrade
    /\ monitoring_result' = NoResult

ResetBreaker(breaker_name) ==
    /\ n_ops < MaxOps
    /\ n_ops' = n_ops + 1
    /\ reset_breaker_ret(Gate, breaker_name, now) \in {"True", "False"}
    /\ SetGate(reset_breaker_state(Gate, breaker_name, now))
    /\ loss_streak' = IF /\ breaker_name = "consecutive_losses"
                         /\ reset_breaker_ret(Gate, breaker_name, now) = "True"
                      THEN 0 ELSE loss_streak
    /\ Returned
    /\ UNCHANGED <<stress_vars, config, now, n_calls, stop_time, ready, tasks>>

\* reset_breaker raising KeyError: nothing is assigned before the raise.
ResetBreakerRaises(breaker_name) ==
    /\ reset_breaker_ret(Gate, breaker_name, now) = "KeyError"
    /\ Returned
    /\ UNCHANGED <<stress_vars, config, now, gate_vars, n_calls, n_ops, loss_streak, stop_time,
                   ready, tasks>>

\* get_breaker_status only reads the gate.
GetBreakerStatus ==
    /\ get_breaker_status_ret(Gate, now) \in {get_breaker_status_ret(Gate, now)}
    /\ Returned
    /\ UNCHANGED <<stress_vars, config, now, gate_vars, n_calls, n_ops, loss_streak, stop_time,
                   ready, tasks>>

EmergencyStop ==
    /\ n_ops < MaxOps
    /\ n_ops' = n_ops + 1
    /\ SetGate(emergency_stop_state(Gate, now))
    /\ stop_time' = now
    /\ Returned
    /\ UNCHANGED <<stress_vars, config, now, n_calls, loss_streak, ready, tasks>>

Tick ==
    /\ now < StartTime + MaxTicks
    /\ now' = now + 1
    /\ Returned
    /\ UNCHANGED <<stress_vars, config, gate_vars, n_calls, n_ops, loss_streak, stop_time,
                   ready, tasks>>

Next ==
    \/ \E p \in Proposals : MonitorTradeExecution(p)
    \/ \E name \in Names \cup {"unknown"} : ResetBreaker(name)
    \/ \E name \in Names : ResetBreakerRaises(name)
    \/ GetBreakerStatus
    \/ EmergencyStop
    \/ Tick

Spec == Init /\ [][Next]_vars

-----------------------------------------------------------------------------
(* Trade dicts with missing keys and with values that are not numbers *)

\* {} ; only expected_profit ; gas_price = None ; expected_profit = None ;
\* expected_profit_percentage = None with a high gas price ; a complete trade
FieldProposals ==
    {[non_numeric |-> {}],
     [expected_profit |-> 0 - 6, non_numeric |-> {}],
     [expected_profit |-> 0 - 6, expected_profit_percentage |-> 2,
      gas_price |-> 0, non_numeric |-> {"gas_price"}],
     [expected_profit |-> 0, expected_profit_percentage |-> 2,
      gas_price |-> 200, non_numeric |-> {"expected_profit"}],
     [expected_profit |-> 2, expected_profit_percentage |-> 0,
      gas_price |-> 201, non_numeric |-> {"expected_profit_percentage"}],
     [expected_profit |-> 2, expected_profit_percentage |-> 2,
      gas_price |-> 200, non_numeric |-> {}]}

NextFields ==
    \/ \E p \in FieldProposals : MonitorTradeExecution(p)
    \/ Tick

SpecFields == Init /\ [][NextFields]_vars

-----------------------------------------------------------------------------
(* Several monitor_trade_execution coroutines on one event loop.           *)
(* A coroutine runs until it awaits.  monitor_trade_execution awaits once, *)
(* at asyncio.gather: gather wraps the four checks in tasks, the loop runs *)
(* its ready handles first in, first out, a finished check schedules       *)
(* gather's callback, and the callback of the last check schedules the     *)
(* wake-up of the awaiting coroutine.                                      *)

Handle(kind, id, k) == [kind |-> kind, id |-> id, k |-> k]

InFlight == {id \in DOMAIN tasks : tasks[id].pc # "done"}

\* loop.create_task(gate.monitor_trade_execution(trade))
Submit(p) ==
    /\ n_ops < MaxOps
    /\ Cardinality(InFlight) < MaxInFlight
    /\ n_calls' = n_calls + 1
    /\ n_ops' = n_ops + 1
    /\ tasks' = Append(tasks, [pc |-> "created", trade |-> TradeOf(p, n_calls + 1),
                               check_results |-> <<>>, nfinished |-> 0])
    /\ ready' = Append(ready, Handle("step", n_calls + 1, 0))
    /\ UNCHANGED <<stress_vars, config, now, gate_vars, trade, monitoring_result, loss_streak,
                   stop_time>>

\* The coroutine up to "await asyncio.gather(*checks)".
RunStep ==
    /\ ready # <<>>
    /\ Head(ready).kind = "step"
    /\ LET id == Head(ready).id
       IN  /\ tasks' = [tasks EXCEPT ![id].pc = "gather"]
           /\ ready' = Tail(ready) \o [k \in 1..4 |-> Handle("check", id, k)]
    /\ UNCHANGED <<stress_vars, config, now, gate_vars, n_calls, n_ops, trade, monitoring_result,
                   loss_streak, stop_time>>

\* One of the four check coroutines, run to its return.
RunCheck ==
    /\ ready # <<>>
    /\ Head(ready).kind = "check"
    /\ LET id == Head(ready).id
           k == Head(ready).k
           c == Check(k, Gate, tasks[id].trade, now)
       IN  /\ SetGate(c.g)
           /\ tasks' = [tasks EXCEPT ![id].check_results = Append(@, c.result)]
           /\ ready' = Append(Tail(ready), Handle("done", id, k))
           /\ loss_streak' = IF k = 2
                             THEN (IF tasks[id].trade.expected_profit < 0
                                   THEN loss_streak + 1 ELSE 0)
                             ELSE loss_streak
    /\ UNCHANGED <<stress_vars, config, now, n_calls, n_ops, trade, monitoring_result, stop_time>>

\* gather's callback for a finished check.
RunDoneCallback ==
    /\ ready # <<>>
    /\ Head(ready).kind = "done"
    /\ LET id == Head(ready).id
           nfinished == tasks[id].nfinished + 1
       IN  /\ tasks' = [tasks EXCEPT ![id].nfinished = nfinished]
           /\ ready' = IF nfinished = 4
                       THEN Append(Tail(ready), Handle("wakeup", id, 0))
                       ELSE Tail(ready)
    /\ UNCHANGED <<stress_vars, config, now, gate_vars, n_calls, n_ops, trade, monitoring_result,
                   loss_streak, stop_time>>

\* The coroutine from the gather to its return.
RunWakeup ==
    /\ ready # <<>>
    /\ Head(ready).kind = "wakeup"
    /\ LET id == Head(ready).id
           tr == tasks[id].trade
       IN  /\ SetGate(update_trading_history(Gate, tr, now))
           /\ trade' = tr
           /\ monitoring_result' = Collect(NewResult(tr), tasks[id].check_results)
           /\ tasks' = [tasks EXCEPT ![id].pc = "done"]
           /\ ready' = Tail(ready)
    /\ UNCHANGED <<stress_vars, config, now, n_calls, n_ops, loss_streak, stop_time>>

\* The clock, while coroutines are in flight.
LoopTick ==
    /\ now < StartTime + MaxTicks
    /\ now' = now + 1
    /\ UNCHANGED <<stress_vars, config, gate_vars, n_calls, n_ops, trade, monitoring_result,
                   loss_streak, stop_time, ready, tasks>>

\* The proposals of the concurrent runs: a win, a loss, and a loss beyond the
\* daily limit with a low profit percentage and a high gas price.
ConcProposals ==
    {Proposal(2, 2, 200), Proposal(0 - 4, 2, 200), Proposal(0 - 6, 0, 201)}

NextConc ==
    \/ \E p \in ConcProposals : Submit(p)
    \/ RunStep
    \/ RunCheck
    \/ RunDoneCallback
    \/ RunWakeup
    \/ LoopTick

SpecConc == Init /\ [][NextConc]_vars

-----------------------------------------------------------------------------
(***************************************************************************)
(* The stress tests of src/src/risk/stress_testing.py (class               *)
(* StressTesting).                                                         *)
(*                                                                         *)
(* Units.  Fractions of the source (probabilities, rates, portfolio        *)
(* values normalised to 1, impacts, drawdowns) are integers in percent     *)
(* points here (0.35 is 35, a value of 0.9 is 90); slippage is in tenths   *)
(* of a percent point (0.002 is 2); amounts of money are whole dollars.    *)
(* The overall risk score and the average impact are kept as exact         *)
(* fractions [num, den].  The portfolios and the samples of the model are  *)
(* such that every division below is exact.                                *)
(***************************************************************************)

MonteCarloIterations == 2    \* self.monte_carlo_iterations = 10000, scaled

\* d.get(key, default)
GetOr(d, key, default) == IF HasKey(d, key) THEN d[key] ELSE default

RECURSIVE SumSeq(_)
SumSeq(seq) == IF seq = <<>> THEN 0 ELSE Head(seq) + SumSeq(Tail(seq))

RECURSIVE MinSeq(_)
MinSeq(seq) ==
    IF Len(seq) = 1 THEN seq[1]
    ELSE LET m == MinSeq(Tail(seq)) IN IF Head(seq) < m THEN Head(seq) ELSE m

\* np.mean
Mean(seq) == SumSeq(seq) \div Len(seq)

-----------------------------------------------------------------------------
(* numpy's global generator.  A draw advances the one state shared by all  *)
(* callers and returns a value determined by the new state; the draws of   *)
(* the model are the quantile levels 0 (low), 1 (middle) and 2 (high),     *)
(* which each distribution maps to one of its samples.                     *)

NextRng(s) == (2 * s + 1) % 11

RECURSIVE Advance(_, _)
Advance(s, k) == IF k = 0 THEN s ELSE Advance(NextRng(s), k - 1)

\* The level of the i-th draw made from state s.
Level(s, i) == Advance(s, i) % 3

\* np.random.seed(...) before the run
Seeds == {0, 7, 8}

Sample(table, level) == table[level + 1]

normal_volatility == <<0 - 40, 0, 40>>   \* np.random.normal(0, volatility_spike)
binomial_failed == <<1, 3, 5>>           \* np.random.binomial(10, failed_tx_rate)
normal_slippage == <<60, 100, 140>>      \* np.random.normal(crisis_slippage, ...)
poisson_failures == <<0, 2, 4>>          \* np.random.poisson(protocol_failures)
uniform_legal == <<80, 160, 192>>        \* np.random.uniform(0.5, 2.0)
normal_confidence == <<20, 40, 60>>      \* np.random.normal(confidence_drop, ...)

\* The portfolios of the model: dicts with optional keys.  positions holds at
\* most one position; a key listed under non_numeric holds None.
Portfolios ==
    {[daily_volume |-> 100000000, non_numeric |-> {}],
     [daily_volume |-> 100000000, total_value |-> 1000,
      positions |-> <<"ETH">>, non_numeric |-> {}],
     [daily_volume |-> 100000000, positions |-> <<>>,
      non_numeric |-> {"positions"}],
     [daily_volume |-> 100000000, avg_profit_per_trade |-> 0,
      non_numeric |-> {"avg_profit_per_trade"}],
     [daily_volume |-> 100000000, positions |-> <<>>, avg_profit_per_trade |-> 0,
      non_numeric |-> {"positions", "avg_profit_per_trade"}]}

-----------------------------------------------------------------------------
(* The simulators.  Each returns the impact analysis (the key under which  *)
(* it stores its trial outcomes, and the outcomes) and the generator state *)
(* it leaves, or the exception it raised.                                  *)

Analysis(key, values, s) == [key |-> key, values |-> values, rng |-> s]

Raises(exception, s) == [raised |-> exception, rng |-> s]

_simulate_flash_crash(scenario, pf, s) ==
    LET params == scenario.parameters
        positions == GetOr(pf, "positions", <<>>)
        n_assets == IF Len(positions) = 0 THEN 1 ELSE Len(positions)
        \* one trial: n_assets draws; L = [[1.0]] for the one asset of the model
        uncorrelated_shocks(i) ==
            [a \in 1..n_assets |->
                Sample(normal_volatility, Level(s, (i - 1) * n_assets + a))]
        correlated_shocks(i) == uncorrelated_shocks(i)
        portfolio_return(i) == (Mean(correlated_shocks(i)) * params.price_decline) \div 100
        liquidity_impact == (100 - params.liquidity_drop) \div 2
        total_impact(i) == portfolio_return(i) - liquidity_impact
        portfolio_value(i) == GetOr(pf, "total_value", 1) * (100 + total_impact(i))
    IN  IF ~Numeric(pf, "positions")
        THEN Raises("TypeError", s)                     \* len(None)
        ELSE IF ~Numeric(pf, "total_value")
        THEN Raises("TypeError", Advance(s, n_assets))  \* in the first trial
        ELSE Analysis("portfolio_values",
                      [i \in 1..MonteCarloIterations |-> portfolio_value(i)],
                      Advance(s, MonteCarloIterations * n_assets))

_simulate_gas_spike(scenario, pf, s) ==
    LET params == scenario.parameters
        base_gas_price == 30
        spike_gas_price == params.gas_price_gwei
        typical_flash_loan_gas == 500000
        \* in thousandths of an ETH
        gas_cost_increase ==
            ((typical_flash_loan_gas \div 1000) * (spike_gas_price - base_gas_price))
                \div 1000
        gas_cost_increase_usd == (gas_cost_increase * 1800) \div 1000
        failed_txs(i) == Sample(binomial_failed, Level(s, i))
        gas_impact == gas_cost_increase_usd * 10
        failed_tx_impact(i) == GetOr(pf, "avg_profit_per_trade", 1000) * failed_txs(i)
        total_impact(i) == gas_impact + failed_tx_impact(i)
    IN  IF ~Numeric(pf, "avg_profit_per_trade")
        THEN Raises("TypeError", Advance(s, 1))         \* in the first trial
        ELSE Analysis("profitability_impacts",
                      [i \in 1..MonteCarloIterations |-> total_impact(i)],
                      Advance(s, MonteCarloIterations))

_simulate_exchange_outage(scenario, pf, s) ==
    LET params == scenario.parameters
        base_slippage == 2
        crisis_slippage == base_slippage + params.slippage_increase
        actual_slippage(i) ==
            Max(Sample(normal_slippage, Level(s, i)), crisis_slippage \div 2)
        trade_size == GetOr(pf, "avg_trade_size", 50000)
        slippage_cost(i) == (trade_size * actual_slippage(i)) \div 1000
        delay_cost == GetOr(pf, "daily_volume", 1000000) \div 1000
        total_impact(i) == slippage_cost(i) + delay_cost
    IN  IF ~Numeric(pf, "avg_trade_size") \/ ~Numeric(pf, "daily_volume")
        THEN Raises("TypeError", Advance(s, 1))
        ELSE Analysis("execution_impacts",
                      [i \in 1..MonteCarloIterations |-> total_impact(i)],
                      Advance(s, MonteCarloIterations))

_simulate_liquidity_crisis(scenario, pf, s) ==
    LET params == scenario.parameters
        il_multiplier == params.impermanent_loss_multiplier
        lp == GetOr(pf, "lp_positions_value", 0)
        protocol_failures(i) == Sample(poisson_failures, Level(s, i))
        failure_impact(i) ==
            (protocol_failures(i) * GetOr(pf, "avg_position_size", 10000)) \div 10
        \* (base_yield - crisis_yield) = 0.05 * yield_compression
        yield_impact == (5 * params.yield_compression * lp) \div 10000
        il_impact == (lp * 2 * il_multiplier) \div 100
        total_impact(i) == failure_impact(i) + yield_impact + il_impact
    IN  IF ~Numeric(pf, "avg_position_size") \/ ~Numeric(pf, "lp_positions_value")
        THEN Raises("TypeError", Advance(s, 1))
        ELSE Analysis("liquidity_impacts",
                      [i \in 1..MonteCarloIterations |-> total_impact(i)],
                      Advance(s, MonteCarloIterations))

_simulate_regulatory_shock(scenario, pf, s) ==
    LET params == scenario.parameters
        compliance_cost ==
            (params.compliance_costs_multiplier
                * (GetOr(pf, "annual_revenue", 1000000) \div 100) * 5) \div 100
        legal_fees == params.legal_fees_millions * 1000000
        \* two draws a trial: the legal outcome, then the volume reduction
        legal_multiplier(i) == Sample(uniform_legal, Level(s, 2 * i - 1))
        volume_reduction(i) == Sample(normal_confidence, Level(s, 2 * i))
        \* profit_margin, default 0.001, in thousandths
        volume_impact(i) ==
            ((GetOr(pf, "daily_volume", 1000000) \div 100) * volume_reduction(i)
                * GetOr(pf, "profit_margin", 1)) \div 1000
        total_impact(i) ==
            (compliance_cost * legal_multiplier(i)) \div 100 + legal_fees
                + volume_impact(i)
    IN  IF ~Numeric(pf, "annual_revenue")
        THEN Raises("TypeError", s)                     \* before the trials
        ELSE IF ~Numeric(pf, "daily_volume") \/ ~Numeric(pf, "profit_margin")
        THEN Raises("TypeError", Advance(s, 2))
        ELSE Analysis("regulatory_impacts",
                      [i \in 1..MonteCarloIterations |-> total_impact(i)],
                      Advance(s, 2 * MonteCarloIterations))

\* The dispatch of _run_single_scenario on scenario.scenario_type.  (The
\* catalog holds no scenario of a type that falls through to
\* _simulate_generic_scenario.)
Simulate(scenario, pf, s) ==
    CASE scenario.scenario_type = "flash_crash" -> _simulate_flash_crash(scenario, pf, s)
      [] scenario.scenario_type = "gas_spike" -> _simulate_gas_spike(scenario, pf, s)
      [] scenario.scenario_type = "exchange_outage" ->
             _simulate_exchange_outage(scenario, pf, s)
      [] scenario.scenario_type = "liquidity_crisis" ->
             _simulate_liquidity_crisis(scenario, pf, s)
      [] scenario.scenario_type = "regulatory_shock" ->
             _simulate_regulatory_shock(scenario, pf, s)

-----------------------------------------------------------------------------
(* The metrics of one scenario and its result *)

\* values = ...: the trial outcomes as portfolio values, in percent points
ValuesOf(impact_analysis) ==
    LET v == impact_analysis.values
    IN  CASE impact_analysis.key = "portfolio_values" -> v
          [] impact_analysis.key = "profitability_impacts" ->
                 [i \in DOMAIN v |-> 100 - 100 * v[i]]
          [] impact_analysis.key = "execution_impacts" ->
                 [i \in DOMAIN v |-> 100 - v[i] \div 1000]
          [] impact_analysis.key = "liquidity_impacts" ->
                 [i \in DOMAIN v |-> 100 - v[i] \div 1000]
          [] impact_analysis.key = "regulatory_impacts" ->
                 [i \in DOMAIN v |-> 100 - v[i] \div 10000]

\* The values in ascending order.
RECURSIVE Sort(_)
Sort(seq) ==
    IF seq = <<>> THEN <<>>
    ELSE LET rest == Sort(Tail(seq))
             before == SelectSeq(rest, LAMBDA v : v <= Head(seq))
             after == SelectSeq(rest, LAMBDA v : v > Head(seq))
         IN  before \o <<Head(seq)>> \o after

\* np.percentile(values, 5), in hundredths of a percent point: the value at
\* position (n - 1) * 0.05 of the sorted values, interpolated linearly between
\* its two neighbours.
percentile_5(values) ==
    LET sorted == Sort(values)
        position == (Len(values) - 1) * 5     \* in hundredths of an index
        below == position \div 100 + 1
        weight == position % 100
    IN  IF weight = 0 THEN 100 * sorted[below]
        ELSE 100 * sorted[below] + weight * (sorted[below + 1] - sorted[below])

\* var_95 is in hundredths of a percent point, the other metrics in percent
\* points.  (With fewer than 21 trials the tail at or below the 5th percentile
\* holds the smallest value only, so that its mean is exact.)
_calculate_risk_metrics(impact_analysis) ==
    LET values == ValuesOf(impact_analysis)
        var_threshold == percentile_5(values)
        tail_losses == SelectSeq(values, LAMBDA v : 100 * v <= var_threshold)
    IN  [portfolio_impact |-> 100 - Mean(values),
         max_drawdown |-> 100 - MinSeq(values),
         var_95 |-> 10000 - percentile_5(values),
         expected_shortfall |->
             IF Len(tail_losses) > 0 THEN 100 - Mean(tail_losses) ELSE 0,
         survival_probability |->
             (100 * Cardinality({i \in DOMAIN values : values[i] >= 50}))
                 \div Len(values)]

\* The recommendations, each by its leading words.
_generate_scenario_recommendations(scenario, risk_metrics) ==
    LET r1 == IF risk_metrics.portfolio_impact > 50 THEN <<"IMMEDIATE", "URGENT">>
              ELSE IF risk_metrics.portfolio_impact > 25 THEN <<"HEDGE", "MONITOR">>
              ELSE <<>>
        r2 == IF risk_metrics.max_drawdown > 70 THEN <<"CAPITAL PRESERVATION">>
              ELSE <<>>
        r3 == IF risk_metrics.survival_probability < 50 THEN <<"SURVIVAL">> ELSE <<>>
        r4 == CASE scenario.scenario_type = "flash_crash" ->
                       <<"Implement circuit breakers", "Diversify">>
                [] scenario.scenario_type = "gas_spike" ->
                       <<"Use Layer 2 solutions", "Implement gas price monitoring">>
                [] scenario.scenario_type = "exchange_outage" ->
                       <<"Maintain accounts", "Develop manual override procedures">>
                [] OTHER -> <<>>
        recommendations == r1 \o r2 \o r3 \o r4
    IN  IF Len(recommendations) = 0
        THEN <<"Current risk exposure appears manageable">>
        ELSE recommendations

\* StressTestResult(...); values keeps the trial outcomes the metrics were
\* reduced from.
StressTestResult(scenario, risk_metrics, recommendations, values) ==
    [scenario |-> scenario,
     portfolio_impact |-> risk_metrics.portfolio_impact,
     max_drawdown |-> risk_metrics.max_drawdown,
     var_95 |-> risk_metrics.var_95,
     expected_shortfall |-> risk_metrics.expected_shortfall,
     survival_probability |-> risk_metrics.survival_probability,
     recommendations |-> recommendations,
     values |-> values]

\* "Return failed result"
FailedResult(scenario) ==
    StressTestResult(scenario,
                     [portfolio_impact |-> 0, max_drawdown |-> 0, var_95 |-> 0,
                      expected_shortfall |-> 0, survival_probability |-> 0],
                     <<"Stress test failed">>, <<>>)

\* (a _run_single_scenario without its try/except: the exception leaves it)
_run_single_scenario_NoExcept(scenario, pf, s) ==
    LET impact_analysis == Simulate(scenario, pf, s)
        risk_metrics == _calculate_risk_metrics(impact_analysis)
    IN  IF HasKey(impact_analysis, "raised")
        THEN [raised |-> impact_analysis.raised, rng |-> impact_analysis.rng]
        ELSE [result |-> StressTestResult(
                             scenario, risk_metrics,
                             _generate_scenario_recommendations(scenario, risk_metrics),
                             ValuesOf(impact_analysis)),
              rng |-> impact_analysis.rng]

\* The coroutine runs from its first step to its return without suspending:
\* the simulators hold no await that yields to the loop.
_run_single_scenario(scenario, pf, s) ==
    LET impact_analysis == Simulate(scenario, pf, s)
        risk_metrics == _calculate_risk_metrics(impact_analysis)
    IN  IF HasKey(impact_analysis, "raised")
        THEN [result |-> FailedResult(scenario), rng |-> impact_analysis.rng]
        ELSE [result |-> StressTestResult(
                             scenario, risk_metrics,
                             _generate_scenario_recommendations(scenario, risk_metrics),
                             ValuesOf(impact_analysis)),
              rng |-> impact_analysis.rng]

Failed(result) == result.recommendations = <<"Stress test failed">>

-----------------------------------------------------------------------------
(* The aggregation of the scenario results *)

RECURSIVE SumBy(_, _)
SumBy(S, f) ==
    IF S = {} THEN 0
    ELSE LET x == CHOOSE y \in S : TRUE IN f[x] + SumBy(S \ {x}, f)

MaxBy(S, f) == CHOOSE m \in {f[x] : x \in S} : \A x \in S : f[x] <= m

\* An exact fraction num/den, den > 0.
Fraction(num, den) == [num |-> num, den |-> den]

Above(q, x) == q.num > x * q.den

Below(q, x) == q.num < x * q.den

\* q <= r
AtMost(q, r) == q.num * r.den <= r.num * q.den

\* q = r, compared by whole part and remainder
SameFraction(q, r) ==
    /\ q.num \div q.den = r.num \div r.den
    /\ (q.num % q.den) * r.den = (r.num % r.den) * q.den

severity_weight(severity) ==
    CASE severity = "low" -> 1
      [] severity = "medium" -> 2
      [] severity = "high" -> 3
      [] severity = "extreme" -> 5
      [] OTHER -> 1

\* scenario.probability * 100
probability_weight(scenario) == scenario.probability

\* total_score / max_score * 100; max_score is a multiple of 100
_calculate_overall_risk_score(scenario_results) ==
    LET names == DOMAIN scenario_results
        weight == [n \in names |->
                      probability_weight(scenario_results[n].scenario)
                          * severity_weight(scenario_results[n].scenario.severity)]
        impact_weight == [n \in names |-> scenario_results[n].portfolio_impact]
        total_score == SumBy(names, [n \in names |-> weight[n] * impact_weight[n]])
        max_score == SumBy(names, [n \in names |-> weight[n] * 100])
    IN  IF names = {} THEN Fraction(0, 1)
        ELSE IF max_score > 0 THEN Fraction(total_score, max_score \div 100)
        ELSE Fraction(0, 1)

_calculate_overall_metrics(scenario_results) ==
    LET names == DOMAIN scenario_results
        portfolio_impacts == [n \in names |-> scenario_results[n].portfolio_impact]
        max_drawdowns == [n \in names |-> scenario_results[n].max_drawdown]
    IN  [worst_case_impact |->
             IF names # {} THEN MaxBy(names, portfolio_impacts) ELSE 0,
         average_impact |->
             IF names # {}
             THEN Fraction(SumBy(names, portfolio_impacts), Cardinality(names))
             ELSE Fraction(0, 1),
         max_drawdown_across_scenarios |->
             IF names # {} THEN MaxBy(names, max_drawdowns) ELSE 0,
         scenarios_above_50pct_impact |->
             Cardinality({n \in names : portfolio_impacts[n] > 50}),
         overall_risk_score |-> _calculate_overall_risk_score(scenario_results)]

\* if risk_score > 70 ... elif risk_score > 50 ... elif risk_score > 30 ... else
RiskTier(risk_score) ==
    IF Above(risk_score, 70) THEN "CRITICAL"
    ELSE IF Above(risk_score, 50) THEN "HIGH"
    ELSE IF Above(risk_score, 30) THEN "MODERATE"
    ELSE "LOW"

\* The recommendations, each by its leading word.
_generate_overall_recommendations(scenario_results, overall_metrics) ==
    LET tier == RiskTier(overall_metrics.overall_risk_score)
        r1 == CASE tier = "CRITICAL" -> <<"CRITICAL", "Reduce", "Implement">>
                [] tier = "HIGH" -> <<"HIGH", "Review", "Consider">>
                [] tier = "MODERATE" -> <<"MODERATE", "Implement", "Maintain">>
                [] tier = "LOW" -> <<"LOW", "Continue", "Regularly">>
        r2 == IF overall_metrics.worst_case_impact > 80 THEN <<"SURVIVAL">> ELSE <<>>
        r3 == IF overall_metrics.scenarios_above_50pct_impact > 2
              THEN <<"DIVERSIFY">> ELSE <<>>
    IN  r1 \o r2 \o r3

\* No overall recommendation holds 'IMMEDIATE' or 'URGENT'.
_generate_executive_summary(results) ==
    [overall_risk_level |-> RiskTier(results.overall_metrics.overall_risk_score),
     immediate_actions |-> <<>>,
     confidence_level |->
         IF Cardinality(DOMAIN results.scenario_results) > 3 THEN "HIGH" ELSE "MEDIUM"]

\* for scenario, result in zip(self.scenarios, scenario_results):
\*     results[scenario.name] = result
\* (zip stops at the shorter of the two; a later assignment to a name
\* replaces the earlier one)
ResultsByName(catalog, scenario_results) ==
    LET zipped == 1..(IF Len(catalog) < Len(scenario_results)
                      THEN Len(catalog) ELSE Len(scenario_results))
    IN  [n \in {catalog[i].name : i \in zipped} |->
            LET last == CHOOSE i \in zipped :
                            /\ catalog[i].name = n
                            /\ \A j \in zipped : catalog[j].name = n => j <= i
            IN  scenario_results[last]]

\* The dict run_comprehensive_stress_tests returns (without its time stamps).
StressReport(pf, catalog, scenario_results) ==
    LET results == ResultsByName(catalog, scenario_results)
        overall_metrics == _calculate_overall_metrics(results)
    IN  [stress_test_id |-> "stress_test",
         portfolio_value |-> GetOr(pf, "total_value", 0),
         scenario_results |-> results,
         overall_metrics |-> overall_metrics,
         recommendations |-> _generate_overall_recommendations(results, overall_metrics)]

-----------------------------------------------------------------------------
(* run_comprehensive_stress_tests as a task on the event loop.  gather     *)
(* wraps the scenario coroutines in tasks; the loop steps them in the      *)
(* order of the list, each from its start to its end, and then wakes the   *)
(* run up.  cancel() on the run's task cancels the gather, which cancels   *)
(* the scenario tasks that are not done.                                    *)

Finished(task) == task.pc \in {"done", "raised", "cancelled"}

\* The scenario task the loop steps next.
NextScenario ==
    CHOOSE i \in DOMAIN scenario_tasks :
        /\ ~Finished(scenario_tasks[i])
        /\ \A j \in 1..(i - 1) : Finished(scenario_tasks[j])

InitStress ==
    /\ GateInit
    /\ portfolio \in Portfolios
    /\ rng_state \in Seeds
    /\ seed = rng_state
    /\ run_pc = "none"
    /\ cancel_requested = FALSE
    /\ scenario_tasks = <<>>
    /\ report = NoReport
    /\ summary = NoSummary
    /\ OtherIdle
    /\ strategies = <<>>

\* loop.create_task(stress.run_comprehensive_stress_tests(portfolio))
StartRun ==
    /\ run_pc = "none"
    /\ run_pc' = "created"
    /\ UNCHANGED <<breaker_vars, other_vars, portfolio, rng_state, seed, cancel_requested,
                   scenario_tasks, report, summary>>

\* The coroutine up to "await asyncio.gather(*tasks)"; a task cancelled
\* before its first step never runs its coroutine.
RunToGather ==
    /\ run_pc = "created"
    /\ IF cancel_requested
       THEN /\ run_pc' = "cancelled"
            /\ UNCHANGED scenario_tasks
       ELSE /\ run_pc' = "gather"
            /\ scenario_tasks' = [i \in DOMAIN scenarios |->
                                      [pc |-> "pending", scenario |-> scenarios[i]]]
    /\ UNCHANGED <<breaker_vars, other_vars, portfolio, rng_state, seed, cancel_requested,
                   report, summary>>

\* One scenario task, from its first step to its end.
ScenarioStep ==
    /\ run_pc = "gather"
    /\ \E i \in DOMAIN scenario_tasks : scenario_tasks[i].pc = "pending"
    /\ LET i == NextScenario
           out == _run_single_scenario(scenario_tasks[i].scenario, portfolio, rng_state)
       IN  /\ scenario_tasks[i].pc = "pending"
           /\ rng_state' = out.rng
           /\ scenario_tasks' =
                  [scenario_tasks EXCEPT ![i] =
                      IF HasKey(out, "raised")
                      THEN [pc |-> "raised", raised |-> out.raised]
                      ELSE [pc |-> "done", result |-> out.result]]
    /\ UNCHANGED <<breaker_vars, other_vars, portfolio, seed, run_pc, cancel_requested,
                   report, summary>>

\* A scenario task cancelled before its first step: CancelledError is thrown
\* into the coroutine at its start.
ScenarioCancelled ==
    /\ run_pc = "gather"
    /\ \E i \in DOMAIN scenario_tasks : scenario_tasks[i].pc = "cancelling"
    /\ LET i == NextScenario
       IN  /\ scenario_tasks[i].pc = "cancelling"
           /\ scenario_tasks' = [scenario_tasks EXCEPT ![i] = [pc |-> "cancelled"]]
    /\ UNCHANGED <<breaker_vars, other_vars, portfolio, rng_state, seed, run_pc,
                   cancel_requested, report, summary>>

\* task.cancel() by another task, while the run has not finished.
Cancel ==
    /\ run_pc \in {"created", "gather"}
    /\ ~cancel_requested
    /\ cancel_requested' = TRUE
    /\ scenario_tasks' =
           [i \in DOMAIN scenario_tasks |->
               IF scenario_tasks[i].pc = "pending"
               THEN [pc |-> "cancelling"] ELSE scenario_tasks[i]]
    /\ UNCHANGED <<breaker_vars, other_vars, portfolio, rng_state, seed, run_pc, report, summary>>

\* The run wakes up from the await: with CancelledError when it was
\* cancelled, with the exception of a scenario task if one raised, and
\* otherwise with the results, which it aggregates and returns.
FinishRun ==
    /\ run_pc = "gather"
    /\ \A i \in DOMAIN scenario_tasks : Finished(scenario_tasks[i])
    /\ IF cancel_requested
       THEN /\ run_pc' = "cancelled"
            /\ UNCHANGED report
       ELSE IF \E i \in DOMAIN scenario_tasks : scenario_tasks[i].pc = "raised"
       THEN /\ run_pc' = "raised"
            /\ UNCHANGED report
       ELSE /\ run_pc' = "returned"
            /\ report' = StressReport(
                             portfolio, scenarios,
                             [i \in DOMAIN scenario_tasks |-> scenario_tasks[i].result])
    /\ UNCHANGED <<breaker_vars, other_vars, portfolio, rng_state, seed, cancel_requested,
                   scenario_tasks, summary>>

\* generate_stress_test_report(report): its executive summary
GenerateStressTestReport ==
    /\ run_pc = "returned"
    /\ summary = NoSummary
    /\ summary' = _generate_executive_summary(report)
    /\ UNCHANGED <<breaker_vars, other_vars, portfolio, rng_state, seed, run_pc,
                   cancel_requested, scenario_tasks, report>>

NextStress ==
    \/ StartRun
    \/ RunToGather
    \/ ScenarioStep
    \/ ScenarioCancelled
    \/ Cancel
    \/ FinishRun
    \/ GenerateStressTestReport

SpecStress == InitStress /\ [][NextStress]_vars

-----------------------------------------------------------------------------
(* The risk tiers as functions of the overall risk score: the              *)
(* recommendations and the executive summary of a report with a given      *)
(* score.                                                                  *)

\* The scores 0, 0.5, 1, ..., 100
Scores == {Fraction(n, 2) : n \in 0..200}

ScoredReport(risk_score) ==
    [stress_test_id |-> "stress_test",
     portfolio_value |-> 0,
     scenario_results |-> <<>>,
     overall_metrics |-> [worst_case_impact |-> 0,
                          average_impact |-> Fraction(0, 1),
                          max_drawdown_across_scenarios |-> 0,
                          scenarios_above_50pct_impact |-> 0,
                          overall_risk_score |-> risk_score],
     recommendations |-> <<>>]

InitTiers ==
    /\ GateInit
    /\ portfolio = [non_numeric |-> {}]
    /\ rng_state = 0
    /\ seed = 0
    /\ run_pc = "returned"
    /\ cancel_requested = FALSE
    /\ scenario_tasks = <<>>
    /\ report \in {ScoredReport(risk_score) : risk_score \in Scores}
    /\ summary = NoSummary
    /\ OtherIdle
    /\ strategies = <<>>

GenerateOverallRecommendations ==
    /\ run_pc = "returned"
    /\ report.recommendations = <<>>
    /\ report' = [report EXCEPT !.recommendations =
                     _generate_overall_recommendations(report.scenario_results,
                                                       report.overall_metrics)]
    /\ UNCHANGED <<breaker_vars, other_vars, portfolio, rng_state, seed, run_pc,
                   cancel_requested, scenario_tasks, summary>>

NextTiers ==
    \/ GenerateOverallRecommendations
    \/ GenerateStressTestReport

SpecTiers == InitTiers /\ [][NextTiers]_vars

-----------------------------------------------------------------------------
(* A catalog that callers extend: self.scenarios is a plain list, appended *)
(* to before a run or by another task while the run awaits its gather.     *)

MaxAppended == 2        \* scenarios appended to the catalog in one behaviour

\* The scenarios a caller appends: a second gas spike under the name of the
\* catalog's own, and an exchange outage under a new name.
AppendedScenarios ==
    {[name |-> "Ethereum Gas Crisis", scenario_type |-> "gas_spike",
      parameters |-> [gas_price_gwei |-> 500, network_congestion |-> 90,
                      failed_transaction_rate |-> 30, duration_hours |-> 24],
      probability |-> 10, severity |-> "extreme"],
     [name |-> "Second Exchange Outage", scenario_type |-> "exchange_outage",
      parameters |-> [available_exchanges |-> 1, slippage_increase |-> 100,
                      withdrawal_delay_hours |-> 12],
      probability |-> 8, severity |-> "medium"]}

\* stress.scenarios.append(scenario)
AppendScenario(scenario) ==
    /\ run_pc \in {"none", "gather"}
    /\ Len(scenarios) < Len(Scenarios) + MaxAppended
    /\ scenarios' = Append(scenarios, scenario)
    /\ UNCHANGED <<breaker_vars, sensitivity_vars, calibration_vars, portfolio, rng_state, seed,
                   run_pc, cancel_requested, scenario_tasks, report, summary>>

\* Runs on a portfolio with every field and on one whose positions are None.
InitCatalog ==
    /\ InitStress
    /\ HasKey(portfolio, "positions")

NextCatalog ==
    \/ \E scenario \in AppendedScenarios : AppendScenario(scenario)
    \/ StartRun
    \/ RunToGather
    \/ ScenarioStep
    \/ FinishRun
    \/ GenerateStressTestReport

SpecCatalog == InitCatalog /\ [][NextCatalog]_vars


-----------------------------------------------------------------------------
(* sensitivity_analysis.  The caller's portfolio dict and the dict the     *)
(* analysis works on are two values here: portfolio.copy() makes a new     *)
(* dict with the same items, and an assignment to a key of the copy leaves *)
(* the caller's dict as it is.  The copy is shallow; the values the two    *)
(* dicts share (the positions list) are only read by the simulators.       *)

\* np.linspace(range_min, range_max, steps)
linspace(range_min, range_max, steps) ==
    [k \in 1..steps |->
        IF steps = 1 THEN range_min
        ELSE range_min + ((range_max - range_min) * (k - 1)) \div (steps - 1)]

\* d[key] = value, value a number
Assign(d, key, value) ==
    [SetKey(d, key, value) EXCEPT !.non_numeric = @ \ {key}]

\* (modified_portfolio = portfolio: the assignment writes the caller's dict)
ModifyPortfolio_NoCopy(pf, parameter, value) ==
    LET modified == IF HasKey(pf, parameter) THEN Assign(pf, parameter, value) ELSE pf
    IN  [portfolio |-> modified, modified_portfolio |-> modified]

\* modified_portfolio = portfolio.copy()
\* if parameter in modified_portfolio: modified_portfolio[parameter] = value
\* Returns the caller's dict and the copy as the two statements leave them.
ModifyPortfolio(pf, parameter, value) ==
    LET copy == pf
    IN  [portfolio |-> pf,
         modified_portfolio |->
             IF HasKey(copy, parameter) THEN Assign(copy, parameter, value) ELSE copy]

\* The scenario coroutines of one gather, nothing else running: each runs
\* from the generator state the one before it left.
RECURSIVE RunScenarios(_, _, _)
RunScenarios(catalog, pf, s) ==
    IF catalog = <<>> THEN [scenario_results |-> <<>>, rng |-> s]
    ELSE LET out == _run_single_scenario(Head(catalog), pf, s)
             rest == RunScenarios(Tail(catalog), pf, out.rng)
         IN  [scenario_results |-> <<out.result>> \o rest.scenario_results,
              rng |-> rest.rng]

\* await self.run_comprehensive_stress_tests(pf), awaited to its return
run_comprehensive_stress_tests(pf, catalog, s) ==
    LET ran == RunScenarios(catalog, pf, s)
    IN  [report |-> StressReport(pf, catalog, ran.scenario_results), rng |-> ran.rng]

\* The parameters a caller analyses (risk_limit is a key of no portfolio),
\* over 1000 .. 3000 in one, two or three steps.
SensitivityParameters == {"total_value", "avg_profit_per_trade", "risk_limit"}

MaxSteps == 3           \* steps of one sensitivity analysis

\* loop.create_task(stress.sensitivity_analysis(portfolio, parameter, ...))
StartSensitivity(parameter, range_min, range_max, steps) ==
    /\ sensitivity = NoSensitivity
    /\ run_pc \in {"none", "returned"}
    /\ sensitivity' = [pc |-> "running", parameter |-> parameter,
                       values |-> linspace(range_min, range_max, steps),
                       results |-> <<>>]
    /\ UNCHANGED <<breaker_vars, calibration_vars, scenarios, portfolio, modified_portfolio,
                   rng_state, seed, run_pc, cancel_requested, scenario_tasks,
                   report, summary>>

\* One turn of the loop over the values: the copy, the assignment, the run on
\* the copy and results.append(...).
SensitivityStep ==
    /\ sensitivity.pc = "running"
    /\ Len(sensitivity.results) < Len(sensitivity.values)
    /\ LET value == sensitivity.values[Len(sensitivity.results) + 1]
           dicts == ModifyPortfolio(portfolio, sensitivity.parameter, value)
           out == run_comprehensive_stress_tests(dicts.modified_portfolio,
                                                 scenarios, rng_state)
           overall_metrics == out.report.overall_metrics
       IN  /\ portfolio' = dicts.portfolio
           /\ modified_portfolio' = dicts.modified_portfolio
           /\ rng_state' = out.rng
           /\ sensitivity' =
                  [sensitivity EXCEPT !.results =
                      Append(@, [parameter_value |-> value,
                                 risk_score |-> overall_metrics.overall_risk_score,
                                 worst_case_impact |->
                                     overall_metrics.worst_case_impact])]
    /\ UNCHANGED <<breaker_vars, calibration_vars, scenarios, seed, run_pc, cancel_requested,
                   scenario_tasks, report, summary>>

\* The analysis returns its dict (the results; its sensitivity score is left
\* out here).
SensitivityReturn ==
    /\ sensitivity.pc = "running"
    /\ Len(sensitivity.results) = Len(sensitivity.values)
    /\ sensitivity' = [sensitivity EXCEPT !.pc = "returned"]
    /\ UNCHANGED <<breaker_vars, calibration_vars, scenarios, portfolio, modified_portfolio,
                   rng_state, seed, run_pc, cancel_requested, scenario_tasks,
                   report, summary>>

\* A caller that runs the stress tests on its portfolio and analyses the
\* sensitivity of it, one call at a time.
NextSensitivity ==
    \/ \E parameter \in SensitivityParameters, steps \in 1..MaxSteps :
           StartSensitivity(parameter, 1000, 3000, steps)
    \/ SensitivityStep
    \/ SensitivityReturn
    \/ sensitivity.pc # "running" /\ StartRun
    \/ RunToGather
    \/ ScenarioStep
    \/ FinishRun

SpecSensitivity == InitStress /\ [][NextSensitivity]_vars

-----------------------------------------------------------------------------
(***************************************************************************)
(* The profit calibration of src/src/risk/profit_calibration.py (class     *)
(* ProfitCalibration).                                                     *)
(*                                                                         *)
(* Units.  win_rate, avg_win_percent and avg_loss_percent are read in      *)
(* percent points (0.6 is 60, 0.15 is 15); allocated_capital in whole      *)
(* dollars.  The floats computed from them are exact rationals here,       *)
(* records [num, den] in lowest terms with den > 0.  The strategies of a   *)
(* call have the ids 1, 2, ... of their places in the list.                *)
(***************************************************************************)

RECURSIVE GCD(_, _)
GCD(a, b) == IF b = 0 THEN a ELSE GCD(b, a % b)

\* num / den in lowest terms, den # 0
Ratio(num, den) ==
    LET g == GCD(Abs(num), Abs(den))
        sign == IF den < 0 THEN 0 - 1 ELSE 1
    IN  [num |-> sign * (num \div g), den |-> sign * (den \div g)]

RatioSub(x, y) == Ratio(x.num * y.den - y.num * x.den, x.den * y.den)

RatioMul(x, y) == Ratio(x.num * y.num, x.den * y.den)

\* x / y, y # 0
RatioDiv(x, y) == Ratio(x.num * y.den, x.den * y.num)

\* (no clamp)
RatioMax0_Identity(x) == x

\* max(0, x)
RatioMax0(x) == IF x.num < 0 THEN Ratio(0, 1) ELSE x

\* The strategies of the model (without the fields that only the optimizer
\* reads): the defaults of win_rate, avg_win_percent and avg_loss_percent;
\* the strategy of the documented example; a losing strategy; a strategy that
\* wins nine times of ten; one with avg_loss_percent = 0; one with
\* avg_win_percent = 0; one whose Kelly fraction is exactly 0.
Strategies ==
    {[allocated_capital |-> 1000],
     [allocated_capital |-> 1000, win_rate |-> 60, avg_win_percent |-> 15,
      avg_loss_percent |-> 5],
     [allocated_capital |-> 2000, win_rate |-> 20, avg_win_percent |-> 5,
      avg_loss_percent |-> 15],
     [allocated_capital |-> 1000, win_rate |-> 90, avg_win_percent |-> 30,
      avg_loss_percent |-> 5],
     [allocated_capital |-> 1000, win_rate |-> 60, avg_win_percent |-> 15,
      avg_loss_percent |-> 0],
     [allocated_capital |-> 1000, win_rate |-> 60, avg_win_percent |-> 0,
      avg_loss_percent |-> 5],
     [allocated_capital |-> 1000, win_rate |-> 50, avg_win_percent |-> 10,
      avg_loss_percent |-> 10]}

MaxStrategies == 3      \* strategies in one call

StrategyLists ==
    UNION {[1..n -> Strategies] : n \in 0..MaxStrategies}

\* The body of the loop of _calculate_kelly_weights for one strategy with
\* avg_loss # 0: kelly_weights[strategy['id']]
KellyWeight(strategy, total_capital) ==
    LET win_rate == GetOr(strategy, "win_rate", 55)
        avg_win == GetOr(strategy, "avg_win_percent", 15)
        avg_loss == GetOr(strategy, "avg_loss_percent", 5)
        b == Ratio(avg_win, avg_loss)
        p == Ratio(win_rate, 100)
        q == RatioSub(Ratio(1, 1), p)
        kelly_fraction ==
            IF b.num > 0 THEN RatioDiv(RatioSub(RatioMul(b, p), q), b) ELSE Ratio(0, 1)
        conservative_fraction == RatioMul(kelly_fraction, Ratio(1, 2))
    IN  [kelly_fraction |-> RatioMax0(kelly_fraction),
         conservative_fraction |-> RatioMax0(conservative_fraction),
         suggested_allocation |->
             RatioMul(conservative_fraction, Ratio(total_capital, 1))]

\* The kelly_weights dict, or the ZeroDivisionError of avg_win / avg_loss at
\* the first strategy with avg_loss = 0.
_calculate_kelly_weights(strats) ==
    LET total_capital == SumSeq([i \in DOMAIN strats |-> strats[i].allocated_capital])
    IN  IF \E i \in DOMAIN strats : GetOr(strats[i], "avg_loss_percent", 5) = 0
        THEN [raised |-> "ZeroDivisionError"]
        ELSE [kelly_weights |->
                 [i \in DOMAIN strats |-> KellyWeight(strats[i], total_capital)]]

\* calibrate_risk_profit_profile: the dict it returns, or the exception that
\* leaves it.  solver is the outcome of ef.max_sharpe, which raises when the
\* optimization fails; the expected returns and the covariance matrix feed
\* the optimizer only, and the weights and the portfolio figures it computes
\* are one opaque value here.
calibrate_risk_profit_profile(strats, solver) ==
    IF strats = <<>> THEN [error |-> "No strategies provided"]
    ELSE IF solver # "optimal" THEN [raised |-> solver]
    ELSE LET kelly == _calculate_kelly_weights(strats)
         IN  IF HasKey(kelly, "raised") THEN kelly
             ELSE [optimal_weights |-> "max_sharpe",
                   kelly_weights |-> kelly.kelly_weights]

SolverOutcomes == {"optimal", "OptimizationError"}

InitCalibration ==
    /\ GateInit
    /\ portfolio = [non_numeric |-> {}]
    /\ rng_state = 0
    /\ seed = 0
    /\ run_pc = "none"
    /\ cancel_requested = FALSE
    /\ scenario_tasks = <<>>
    /\ report = NoReport
    /\ summary = NoSummary
    /\ OtherIdle
    /\ strategies \in StrategyLists

\* calibration.calibrate_risk_profit_profile(strategies)
CalibrateRiskProfitProfile(solver) ==
    /\ calibration = NoCalibration
    /\ calibration' = calibrate_risk_profit_profile(strategies, solver)
    /\ UNCHANGED <<breaker_vars, scenarios, sensitivity_vars, portfolio, rng_state,
                   seed, run_pc, cancel_requested, scenario_tasks, report, summary,
                   strategies>>

NextCalibration ==
    \E solver \in SolverOutcomes : CalibrateRiskProfitProfile(solver)

SpecCalibration == InitCalibration /\ [][NextCalibration]_vars

-----------------------------------------------------------------------------
(* Properties *)

InSeq(x, seq) == \E i \in 1..Len(seq) : seq[i] = x

\* A monitor_trade_execution call has just returned monitoring_result for trade.
Evaluated == monitoring_result # NoResult

\* This step is a monitor_trade_execution call (of Spec).
MonitorStep == n_calls' = n_calls + 1

IndexOf(name) == CHOOSE k \in 1..4 : BreakerNames[k] = name

LowProfitWarning(pct) == <<"Low profitability", pct>>

\* pct is at least half the floor and below the floor
InWarningBand(pct) ==
    /\ pct < config.min_profit_threshold
    /\ 2 * pct >= config.min_profit_threshold

\* C1: once a breaker's triggered flag is set, every later
\* monitor_trade_execution call returns allowed_to_proceed = false until the
\* breaker is reset.
C1_DeniedWhileTriggered ==
    [][(MonitorStep /\ \E name \in Names : breakers[name].triggered)
         => ~monitoring_result'.allowed_to_proceed]_vars

\* The sum of expected_profit over the records of h evaluated at or after t0.
RECURSIVE SumSince(_, _)
SumSince(h, t0) ==
    IF h = <<>> THEN 0
    ELSE (IF Head(h).timestamp >= t0 THEN Head(h).expected_profit ELSE 0)
         + SumSince(Tail(h), t0)

\* C2: the daily-loss breaker triggers, and the call is denied, exactly when
\* the cumulative expected profit of the trades evaluated since the last daily
\* rollover plus the proposed trade's expected profit is below -max_daily_loss.
C2_DailyLossIsCumulative ==
    [][MonitorStep =>
         LET cumulative == SumSince(trading_history, last_reset_time')
             exceeded == cumulative + trade'.expected_profit
                           < 0 - config.max_daily_loss
         IN  /\ InSeq("daily_loss", monitoring_result'.breakers_triggered) <=> exceeded
             /\ exceeded => ~monitoring_result'.allowed_to_proceed]_vars

\* A reset_breaker call made before the cooldown has elapsed returns False and
\* leaves the gate as it is.
C3_EarlyResetRefused ==
    \A name \in Names :
        (/\ HasKey(breakers[name], "last_trigger")
         /\ now - breakers[name].last_trigger < config.cooldown_period)
        => /\ reset_breaker_ret(Gate, name, now) = "False"
           /\ reset_breaker_state(Gate, name, now) = Gate

\* A triggered flag is cleared only by reset_breaker of that breaker, called
\* when the cooldown has elapsed since its last trigger.
C3_ClearedOnlyByReset ==
    \A name \in Names :
        (breakers[name].triggered /\ ~breakers'[name].triggered)
        => /\ ResetBreaker(name)
           /\ now - breakers[name].last_trigger >= config.cooldown_period

\* C3: a breaker's triggered flag goes from true to false only through a
\* reset_breaker call made when cooldown_period has elapsed since its last
\* trigger; an earlier reset_breaker returns False and changes neither the
\* flag nor the counter; no other step clears a flag.
C3_ResetOnlyAfterCooldown ==
    []C3_EarlyResetRefused /\ [][C3_ClearedOnlyByReset]_vars

\* a breaker that has triggered and has been reset since
C3_Witness ==
    \E name \in Names :
        /\ HasKey(breakers[name], "last_trigger")
        /\ breakers[name].last_trigger >= StartTime
        /\ ~breakers[name].triggered

\* The checks of trade id have begun and its history update is still to come.
Evaluating(id) ==
    /\ tasks[id].pc = "gather"
    /\ tasks[id].check_results # <<>>

\* C4: concurrent monitor_trade_execution calls are serialized: the checks and
\* the history update of one trade are never interleaved with those of
\* another trade.
C4_EvaluationsSerialized ==
    \A i, j \in DOMAIN tasks : i # j => ~(Evaluating(i) /\ Evaluating(j))

\* C5: the consecutive-losses breaker triggers on the evaluation at which the
\* number of consecutively evaluated losing trades reaches
\* max_consecutive_losses, and on no evaluation where that number is smaller.
C5_TriggersWhenStreakReached ==
    Evaluated =>
        /\ InSeq("consecutive_losses", monitoring_result.breakers_triggered)
             <=> loss_streak >= config.max_consecutive_losses
        /\ InSeq("consecutive_losses", monitoring_result.breakers_triggered)
             => /\ breakers.consecutive_losses.triggered
                /\ breakers.consecutive_losses.last_trigger = now

C5_Witness ==
    /\ Evaluated
    /\ InSeq("consecutive_losses", monitoring_result.breakers_triggered)
    /\ loss_streak = 2
    /\ config.max_consecutive_losses = 2

\* C6: evaluating a winning trade sets the consecutive-loss counter to 0 and
\* never triggers the consecutive-losses breaker, for every configuration.
C6_WinNeverTriggers ==
    (Evaluated /\ trade.expected_profit > 0)
    => /\ breakers.consecutive_losses.count = 0
       /\ ~InSeq("consecutive_losses", monitoring_result.breakers_triggered)

\* C7: for a trade whose gas price exceeds the ceiling and whose expected
\* profit percentage is below the floor, the result reports both violations
\* (a triggered breaker or a warning) and allowed_to_proceed is false.
C7_BothViolationsReported ==
    (/\ Evaluated
     /\ trade.gas_price > config.max_gas_price
     /\ trade.expected_profit_percentage < config.min_profit_threshold)
    => /\ InSeq("gas_price", monitoring_result.breakers_triggered)
       /\ InSeq(<<"Gas price too high", trade.gas_price>>, monitoring_result.warnings)
       /\ InSeq(LowProfitWarning(trade.expected_profit_percentage),
                monitoring_result.warnings)
       /\ ~monitoring_result.allowed_to_proceed

\* gas above the ceiling, profit in the warning band
C7_Witness ==
    /\ Evaluated
    /\ trade.gas_price > config.max_gas_price
    /\ InWarningBand(trade.expected_profit_percentage)
    /\ ~monitoring_result.allowed_to_proceed
    /\ Len(monitoring_result.warnings) = 2

\* C8: every call runs the four checks in the order daily-loss,
\* consecutive-losses, gas price, profitability; a denial by an earlier check
\* skips neither the state updates nor the results of the later checks, and
\* breakers_triggered is in that order.
C8_AllChecksRunInOrder ==
    Evaluated =>
        LET triggered == monitoring_result.breakers_triggered
            pct == trade.expected_profit_percentage
        IN  /\ \A i, j \in 1..Len(triggered) :
                  i < j => IndexOf(triggered[i]) < IndexOf(triggered[j])
            /\ \A i \in 1..Len(triggered) :
                  /\ breakers[triggered[i]].triggered
                  /\ breakers[triggered[i]].last_trigger = now
            /\ breakers.consecutive_losses.count = loss_streak
            /\ InSeq("consecutive_losses", triggered)
                 <=> loss_streak >= config.max_consecutive_losses
            /\ InSeq("gas_price", triggered)
                 <=> trade.gas_price > config.max_gas_price
            /\ InSeq("profitability", triggered)
                 <=> 2 * pct < config.min_profit_threshold
            /\ InWarningBand(pct)
                 => InSeq(LowProfitWarning(pct), monitoring_result.warnings)
            /\ Len(monitoring_result.warnings)
                 = Len(triggered) + (IF InWarningBand(pct) THEN 1 ELSE 0)

\* a trade denied by the daily-loss check, and by the two last checks as well
C8_Witness ==
    /\ Evaluated
    /\ InSeq("daily_loss", monitoring_result.breakers_triggered)
    /\ InSeq("gas_price", monitoring_result.breakers_triggered)
    /\ InSeq("profitability", monitoring_result.breakers_triggered)

\* C9: the profitability breaker triggers only when the percentage is below
\* half of min_profit_threshold; a percentage in the warning band adds a
\* warning, leaves the profitability flag as it was and does not by itself
\* deny the trade.
C9_WarningBandOnlyWarns ==
    [][MonitorStep =>
         LET pct == trade'.expected_profit_percentage
             res == monitoring_result'
         IN  /\ InSeq("profitability", res.breakers_triggered)
                  => 2 * pct < config.min_profit_threshold
             /\ InWarningBand(pct)
                  => /\ InSeq(LowProfitWarning(pct), res.warnings)
                     /\ breakers'.profitability = breakers.profitability
                     /\ ~InSeq("profitability", res.breakers_triggered)
                     /\ res.allowed_to_proceed <=> res.breakers_triggered = <<>>]_vars

\* a trade in the warning band that was allowed, with its warning
C9_Witness ==
    /\ Evaluated
    /\ InWarningBand(trade.expected_profit_percentage)
    /\ monitoring_result.allowed_to_proceed
    /\ monitoring_result.warnings
         = <<LowProfitWarning(trade.expected_profit_percentage)>>

\* C10: emergency_stop, from any state, leaves all four breakers triggered
\* with last_trigger the time of the call, and no reset_breaker succeeds for
\* any breaker until cooldown_period has elapsed since the stop.
C10_StopHoldsForCooldown ==
    /\ LET g == emergency_stop_state(Gate, now)
       IN  \A name \in Names :
               /\ HasKey(g.breakers[name], "last_trigger")
               /\ g.breakers[name].triggered
               /\ g.breakers[name].last_trigger = now
    /\ (stop_time # Never /\ now - stop_time < config.cooldown_period)
       => \A name \in Names :
              /\ breakers[name].triggered
              /\ breakers[name].last_trigger >= stop_time
              /\ reset_breaker_ret(Gate, name, now) = "False"

\* one tick after an emergency stop, inside the cooldown
C10_Witness ==
    /\ stop_time # Never
    /\ now > stop_time
    /\ now - stop_time < config.cooldown_period
    /\ \A name \in Names : breakers[name].triggered

\* C11: reset_breaker on a breaker that is not triggered is a no-op: whenever
\* the call completes, the flags, the consecutive-loss counter, the
\* last-trigger times, the daily PnL and the trading history are the same
\* after it as before it.
C11_ResetOfUntriggeredIsNoOp ==
    \A name \in Names :
        (/\ ~breakers[name].triggered
         /\ reset_breaker_ret(Gate, name, now) # "KeyError")
        => reset_breaker_state(Gate, name, now) = Gate

\* C13: every breaker carries a triggered flag and a last-trigger time, so
\* reset_breaker and get_breaker_status complete with a normal result, also
\* for a consecutive_losses breaker that has never triggered.
C13_EveryBreakerHasLastTrigger ==
    /\ \A name \in Names :
           /\ HasKey(breakers[name], "triggered")
           /\ HasKey(breakers[name], "last_trigger")
           /\ reset_breaker_ret(Gate, name, now) \in {"True", "False"}
    /\ get_breaker_status_ret(Gate, now) # "KeyError"

\* C12: monitor_trade_execution always returns a verdict structure and never
\* raises, also for a trade with missing or malformed fields, and a call that
\* fails leaves the gate as it found it.
C12_AlwaysReturnsVerdict ==
    /\ Evaluated =>
           /\ HasKey(monitoring_result, "allowed_to_proceed")
           /\ HasKey(monitoring_result, "breakers_triggered")
           /\ HasKey(monitoring_result, "warnings")
    /\ \A p \in FieldProposals :
           LET out == monitor_trade_execution(Gate, TradeOf(p, n_calls + 1), now)
           IN  HasKey(out.ret, "raised") => out.g = Gate

-----------------------------------------------------------------------------
(* Properties of the stress tests *)

\* The simulation of the i-th scenario of the catalog raises on the portfolio.
SimulationRaises(i) == HasKey(Simulate(Scenarios[i], portfolio, seed), "raised")

Reported == run_pc = "returned" /\ DOMAIN report.scenario_results # {}

EntryOf(i) == report.scenario_results[Scenarios[i].name]

\* C14: when the simulation of a scenario raises, the run does not raise: it
\* returns a report with a failure entry for that scenario and a valid entry
\* for every other one.
C14_FailingScenarioDoesNotAbort ==
    /\ run_pc # "raised"
    /\ \A i \in DOMAIN scenario_tasks : scenario_tasks[i].pc # "raised"
    /\ (run_pc \notin {"none", "created", "gather"} /\ ~cancel_requested)
           => Reported
    /\ Reported =>
           \A i \in DOMAIN Scenarios :
               /\ EntryOf(i).scenario = Scenarios[i]
               /\ IF SimulationRaises(i)
                  THEN EntryOf(i) = FailedResult(Scenarios[i])
                  ELSE /\ ~Failed(EntryOf(i))
                       /\ Len(EntryOf(i).values) = MonteCarloIterations

\* a report with a failure entry next to valid entries
C14_Witness ==
    /\ Reported
    /\ \E i \in DOMAIN Scenarios : SimulationRaises(i) /\ Failed(EntryOf(i))
    /\ \E i \in DOMAIN Scenarios : ~SimulationRaises(i) /\ ~Failed(EntryOf(i))

\* C15: the report marks itself partial exactly when a scenario failed.
C15_ReportMarksItselfPartial ==
    Reported =>
        /\ HasKey(report, "partial")
        /\ report.partial <=> \E i \in DOMAIN Scenarios : Failed(EntryOf(i))

\* C16: a failed scenario has zero weight: the overall risk score and the
\* average impact of a report equal those computed over the scenarios that
\* were simulated successfully.
C16_FailedScenarioHasZeroWeight ==
    Reported =>
        LET simulated == {n \in DOMAIN report.scenario_results :
                             ~Failed(report.scenario_results[n])}
            alone == _calculate_overall_metrics(
                         [n \in simulated |-> report.scenario_results[n]])
        IN  /\ SameFraction(report.overall_metrics.overall_risk_score,
                            alone.overall_risk_score)
            /\ SameFraction(report.overall_metrics.average_impact,
                            alone.average_impact)

\* C17: the overall risk score is the probability-and-severity-weighted sum
\* of the scenario impacts over the maximum attainable weighted score, and
\* lies in [0, 100].
C17_ScoreIsNormalisedWeightedSum ==
    Reported =>
        LET I == DOMAIN Scenarios
            w == [i \in I |-> Scenarios[i].probability
                                  * severity_weight(Scenarios[i].severity)]
            weighted == SumBy(I, [i \in I |-> w[i] * EntryOf(i).portfolio_impact])
            risk_score == report.overall_metrics.overall_risk_score
        IN  /\ SameFraction(risk_score, Fraction(weighted, SumBy(I, w)))
            /\ ~Below(risk_score, 0)
            /\ ~Above(risk_score, 100)

\* The tiers the specification allows for a score.
AllowedTiers(risk_score) ==
    {t \in {"CRITICAL", "HIGH", "MODERATE", "LOW"} :
        \/ t = "CRITICAL" /\ Above(risk_score, 70)
        \/ t = "HIGH" /\ ~Below(risk_score, 50) /\ ~Above(risk_score, 70)
        \/ t = "MODERATE" /\ ~Below(risk_score, 30) /\ ~Above(risk_score, 50)
        \/ t = "LOW" /\ Below(risk_score, 30)}

TierRank(t) ==
    CASE t = "LOW" -> 0 [] t = "MODERATE" -> 1 [] t = "HIGH" -> 2 [] t = "CRITICAL" -> 3

\* C18: for every score in [0, 100] the recommendations carry exactly one
\* tier: critical above 70, high in 50-70, moderate in 30-50, low below 30;
\* the tier never decreases when the score increases.
C18_TierMatchesScore ==
    LET risk_score == report.overall_metrics.overall_risk_score
        tiers == {t \in {"CRITICAL", "HIGH", "MODERATE", "LOW"} :
                     InSeq(t, report.recommendations)}
    IN  /\ (run_pc = "returned" /\ report.recommendations # <<>>) =>
               /\ Cardinality(tiers) = 1
               /\ tiers \subseteq AllowedTiers(risk_score)
        /\ (run_pc = "returned" /\ summary # NoSummary) =>
               summary.overall_risk_level \in AllowedTiers(risk_score)
        /\ \A r \in Scores :
               AtMost(risk_score, r)
                   => TierRank(RiskTier(risk_score)) <= TierRank(RiskTier(r))

\* C19: a run cancelled while scenario tasks are in flight returns the
\* partial report of the scenarios already computed.
C19_CancelledRunReturnsPartialReport ==
    (/\ cancel_requested
     /\ run_pc # "gather"
     /\ \E i \in DOMAIN scenario_tasks : scenario_tasks[i].pc = "done"
     /\ \E i \in DOMAIN scenario_tasks : scenario_tasks[i].pc = "cancelled") =>
        /\ run_pc = "returned"
        /\ report # NoReport
        /\ \A i \in DOMAIN scenario_tasks :
               scenario_tasks[i].pc = "done"
                   => /\ HasKey(report.scenario_results, Scenarios[i].name)
                      /\ EntryOf(i) = scenario_tasks[i].result

\* C20: with the generator seeded at the start, the trial outcomes of a
\* scenario on a portfolio are those of simulating it from the seeded state,
\* whatever the other scenario tasks of the run have done.
C20_ScenarioOutputIndependentOfOtherTasks ==
    \A i \in DOMAIN scenario_tasks :
        (scenario_tasks[i].pc = "done" /\ ~Failed(scenario_tasks[i].result))
            => scenario_tasks[i].result.values
                   = ValuesOf(Simulate(Scenarios[i], portfolio, seed))

-----------------------------------------------------------------------------
(* Further properties of the gate *)

\* After a monitor_trade_execution call, a counter at or above the limit
\* comes with a triggered consecutive_losses breaker.
C26_CounterAtLimitIsTriggered ==
    (Evaluated /\ breakers.consecutive_losses.count >= config.max_consecutive_losses)
    => breakers.consecutive_losses.triggered

\* Evaluating a non-losing trade while the flag is set puts the counter to 0
\* and leaves the flag set.
C26_WinKeepsFlag ==
    (/\ MonitorStep
     /\ breakers.consecutive_losses.triggered
     /\ ~IsLoss(trade'.expected_profit))
    => /\ breakers'.consecutive_losses.count = 0
       /\ breakers'.consecutive_losses.triggered

\* A successful reset_breaker of consecutive_losses clears the flag and the
\* counter.
C26_ResetClearsBoth ==
    (/\ ResetBreaker("consecutive_losses")
     /\ reset_breaker_ret(Gate, "consecutive_losses", now) = "True")
    => /\ ~breakers'.consecutive_losses.triggered
       /\ breakers'.consecutive_losses.count = 0

\* C26: after every monitor_trade_execution call, a consecutive-loss counter
\* of at least max_consecutive_losses implies that the consecutive_losses
\* breaker is triggered; the converse fails: a non-losing trade puts the
\* counter to 0 while the flag stays set, until a successful reset_breaker
\* sets the flag to false and the counter to 0.
C26_CounterImpliesFlagNotConversely ==
    /\ []C26_CounterAtLimitIsTriggered
    /\ [][C26_WinKeepsFlag /\ C26_ResetClearsBoth]_vars

\* a non-losing trade evaluated after the streak had triggered the breaker:
\* flag set, counter 0, below the limit
C26_Witness ==
    /\ Evaluated
    /\ ~IsLoss(trade.expected_profit)
    /\ config.max_consecutive_losses = 2
    /\ breakers.consecutive_losses.triggered
    /\ breakers.consecutive_losses.count = 0

\* breaker['last_trigger'], Never while the key is absent
LastTrigger(b) == IF HasKey(b, "last_trigger") THEN b.last_trigger ELSE Never

\* An evaluation that crosses the threshold of an already triggered breaker
\* stamps it again.
C27_CrossingRefreshes ==
    \A name \in Names :
        (/\ MonitorStep
         /\ breakers[name].triggered
         /\ InSeq(name, monitoring_result'.breakers_triggered))
        => /\ breakers'[name].triggered
           /\ breakers'[name].last_trigger = now

\* last_trigger is written only by an evaluation that crosses the threshold
\* and by emergency_stop.
C27_StampedOnlyByTrigger ==
    \A name \in Names :
        LastTrigger(breakers'[name]) # LastTrigger(breakers[name])
        => \/ MonitorStep /\ InSeq(name, monitoring_result'.breakers_triggered)
           \/ EmergencyStop

\* reset_breaker returns True only when the cooldown has elapsed since the
\* stamp.
C27_ResetWaitsForStamp ==
    \A name \in Names :
        reset_breaker_ret(Gate, name, now) = "True"
        => now - breakers[name].last_trigger >= config.cooldown_period

\* C27: the cooldown of a breaker is measured from its most recent trigger:
\* every evaluation that crosses the threshold while the breaker is already
\* triggered refreshes last_trigger, and reset_breaker succeeds only once
\* cooldown_period has elapsed since the last such evaluation, not since the
\* first trigger.
C27_CooldownFromLastTrigger ==
    /\ []C27_ResetWaitsForStamp
    /\ [][C27_CrossingRefreshes /\ C27_StampedOnlyByTrigger]_vars

\* two evaluations in a row beyond the daily loss limit, the cooldown elapsed
\* since the first and not since the second: reset_breaker returns False
C27_Witness ==
    /\ Len(trading_history) = 2
    /\ DailyLossExceeded(trading_history[1].expected_profit)
    /\ DailyLossExceeded(trading_history[2].expected_profit)
    /\ trading_history[1].timestamp < trading_history[2].timestamp
    /\ breakers.daily_loss.triggered
    /\ breakers.daily_loss.last_trigger = trading_history[2].timestamp
    /\ now - trading_history[1].timestamp >= config.cooldown_period
    /\ now - trading_history[2].timestamp < config.cooldown_period
    /\ reset_breaker_ret(Gate, "daily_loss", now) = "False"

Min(a, b) == IF a < b THEN a ELSE b

\* C28: after any sequence of monitor_trade_execution calls the trading
\* history holds at most HistoryLimit records; every evaluation, allowed or
\* denied, appends exactly one record for its trade, and beyond the limit the
\* oldest record is the one removed: the history is the most recent
\* evaluations (trade ids n_calls - Len + 1 .. n_calls) in evaluation order.
C28_HistoryIsMostRecentEvaluations ==
    LET n == Len(trading_history)
    IN  /\ n = Min(n_calls, HistoryLimit)
        /\ \A i \in 1..n : trading_history[i].trade_id = n_calls - n + i
        /\ \A i, j \in 1..n :
              i < j => trading_history[i].timestamp <= trading_history[j].timestamp
        /\ Evaluated =>
              /\ trading_history[n].trade_id = trade.id
              /\ trading_history[n].expected_profit = trade.expected_profit
              /\ trading_history[n].timestamp = now

\* a third evaluation, denied, after an allowed one: the record of the first
\* evaluation is gone
C28_Witness ==
    /\ Evaluated
    /\ n_calls = HistoryLimit + 1
    /\ ~monitoring_result.allowed_to_proceed
    /\ Len(trading_history) = HistoryLimit
    /\ trading_history[1].trade_id = 2
    /\ trading_history[1].expected_profit > 0
    /\ trading_history[HistoryLimit].trade_id = n_calls

\* A reset_breaker call leaves the breakers other than the named one, the
\* daily PnL, the trading history and the day's start as they are.
C29_ResetFrame ==
    \A name \in Names \cup {"unknown"} :
        (ResetBreaker(name) \/ ResetBreakerRaises(name))
        => /\ \A other \in Names \ {name} : breakers'[other] = breakers[other]
           /\ daily_pnl' = daily_pnl
           /\ trading_history' = trading_history
           /\ last_reset_time' = last_reset_time

\* reset_breaker of a name that is no breaker returns False and changes nothing.
C29_UnknownNameIsNoOp ==
    /\ reset_breaker_ret(Gate, "unknown", now) = "False"
    /\ reset_breaker_state(Gate, "unknown", now) = Gate

\* C29: reset_breaker(name) changes at most the named breaker: the flags,
\* counters and last-trigger times of the other breakers, the daily PnL and
\* the trading history are unchanged whether the reset succeeds or not, and a
\* name that is not a breaker returns False and changes nothing.
C29_ResetTouchesOnlyNamedBreaker ==
    /\ []C29_UnknownNameIsNoOp
    /\ [][C29_ResetFrame]_vars

\* gas_price has been reset after the cooldown while profitability, triggered
\* by the same evaluation, is still triggered
C29_Witness ==
    /\ trading_history # <<>>
    /\ ~breakers.gas_price.triggered
    /\ breakers.gas_price.last_trigger >= StartTime
    /\ breakers.profitability.triggered
    /\ breakers.profitability.last_trigger = breakers.gas_price.last_trigger
    /\ stop_time = Never

-----------------------------------------------------------------------------
(* Further properties of the stress tests *)

\* C30: the report returned by run_comprehensive_stress_tests holds exactly
\* one entry for every scenario the run was started with, and each entry is
\* the result computed for that scenario, also when scenarios have been
\* appended to the catalog (two of them may have the same name): no scenario
\* is missing from the report.
C30_OneEntryPerScenario ==
    run_pc = "returned" =>
        /\ Cardinality(DOMAIN report.scenario_results) = Len(scenario_tasks)
        /\ \A i \in DOMAIN scenario_tasks :
              LET result == scenario_tasks[i].result
              IN  /\ HasKey(report.scenario_results, result.scenario.name)
                  /\ report.scenario_results[result.scenario.name] = result

\* C25: the portfolio passed to run_comprehensive_stress_tests or to
\* sensitivity_analysis is never mutated by the engine: in every step of a run
\* and of an analysis every field of the caller's portfolio stays as it was,
\* whether the scenarios succeed or fail.
C25_PortfolioNeverMutated ==
    [][portfolio' = portfolio]_vars

\* an analysis that has returned after runs on a copy that differs from the
\* caller's portfolio, with a scenario that failed in each run
C25_Witness ==
    /\ sensitivity.pc = "returned"
    /\ Len(sensitivity.results) >= 2
    /\ modified_portfolio # portfolio
    /\ sensitivity.parameter = "avg_profit_per_trade"
    /\ ~Numeric(portfolio, "avg_profit_per_trade")
    /\ modified_portfolio.avg_profit_per_trade
           = sensitivity.results[Len(sensitivity.results)].parameter_value
    /\ \E i \in DOMAIN scenarios :
           Failed(_run_single_scenario(scenarios[i], modified_portfolio, seed).result)

\* C21: for every non-empty set of trial values, also one with values below 0
\* or above 1 as the gas-spike, outage, liquidity and regulatory simulators
\* produce them, the portfolio impact, the max drawdown, the VaR, the expected
\* shortfall and the survival probability reduced from it each lie in [0, 1].
C21_RiskMetricsWithinUnitInterval ==
    \A i \in DOMAIN scenario_tasks :
        (scenario_tasks[i].pc = "done" /\ ~Failed(scenario_tasks[i].result))
        => LET result == scenario_tasks[i].result
           IN  /\ result.values # <<>>
               /\ result.portfolio_impact \in 0..100
               /\ result.max_drawdown \in 0..100
               /\ result.var_95 \in 0..10000
               /\ result.expected_shortfall \in 0..100
               /\ result.survival_probability \in 0..100

-----------------------------------------------------------------------------
(* Properties of the profit calibration *)

\* A calibrate_risk_profit_profile call has returned its result dict.
Calibrated == HasKey(calibration, "kelly_weights")

\* (b * p - q) / b with b = avg_win / avg_loss, p = win_rate, q = 1 - p, for
\* avg_win > 0: (avg_win * p - avg_loss * q) / avg_win, the rates in percent
KellyFormula(win_rate, avg_win, avg_loss) ==
    Ratio(avg_win * win_rate - avg_loss * (100 - win_rate), 100 * avg_win)

\* C22: for every strategy the Kelly fraction is max(0, (b*p - q)/b) with
\* b = avg_win/avg_loss, p = win_rate and q = 1 - p, and the conservative
\* fraction is half of that clamped fraction; win_rate 0.6, avg_win 0.15 and
\* avg_loss 0.05 give 7/15 and 7/30.
C22_KellyFractionIsClampedFormula ==
    Calibrated =>
        \A i \in DOMAIN strategies :
            LET win_rate == GetOr(strategies[i], "win_rate", 55)
                avg_win == GetOr(strategies[i], "avg_win_percent", 15)
                avg_loss == GetOr(strategies[i], "avg_loss_percent", 5)
                formula == IF avg_win > 0
                           THEN KellyFormula(win_rate, avg_win, avg_loss)
                           ELSE Ratio(0, 1)
                clamped == IF formula.num < 0 THEN Ratio(0, 1) ELSE formula
                w == calibration.kelly_weights[i]
            IN  /\ w.kelly_fraction = clamped
                /\ w.conservative_fraction
                       = Ratio(clamped.num, 2 * clamped.den)
                /\ (win_rate = 60 /\ avg_win = 15 /\ avg_loss = 5)
                   => /\ w.kelly_fraction = [num |-> 7, den |-> 15]
                      /\ w.conservative_fraction = [num |-> 7, den |-> 30]

\* a calibration of the documented strategy together with a losing one, whose
\* fraction is clamped to 0
C22_Witness ==
    /\ Calibrated
    /\ \E i \in DOMAIN strategies :
           /\ calibration.kelly_weights[i].kelly_fraction = [num |-> 7, den |-> 15]
           /\ calibration.kelly_weights[i].conservative_fraction
                  = [num |-> 7, den |-> 30]
    /\ \E i \in DOMAIN strategies :
           /\ GetOr(strategies[i], "avg_win_percent", 15) > 0
           /\ KellyFormula(GetOr(strategies[i], "win_rate", 55),
                           GetOr(strategies[i], "avg_win_percent", 15),
                           GetOr(strategies[i], "avg_loss_percent", 5)).num < 0
           /\ calibration.kelly_weights[i].kelly_fraction = [num |-> 0, den |-> 1]

RatioAdd(x, y) == Ratio(x.num * y.den + y.num * x.den, x.den * y.den)

RatioLess(x, y) == x.num * y.den < y.num * x.den

RECURSIVE RatioSum(_)
RatioSum(seq) ==
    IF seq = <<>> THEN Ratio(0, 1) ELSE RatioAdd(Head(seq), RatioSum(Tail(seq)))

\* sum(s['allocated_capital'] for s in strategies)
TotalCapital == SumSeq([i \in DOMAIN strategies |-> strategies[i].allocated_capital])

\* C23: in every calibration result no strategy's suggested Kelly allocation
\* is negative, and the suggested allocations of all strategies together do
\* not exceed the total allocatable capital, for any number of strategies and
\* any win rates and win/loss magnitudes.
C23_AllocationsWithinCapital ==
    Calibrated =>
        LET allocations == [i \in DOMAIN strategies |->
                               calibration.kelly_weights[i].suggested_allocation]
        IN  /\ \A i \in DOMAIN strategies : allocations[i].num >= 0
            /\ ~RatioLess(Ratio(TotalCapital, 1), RatioSum(allocations))

\* C24: calibrate_risk_profit_profile never fails outright: when the
\* mean-variance optimization fails, or the inputs of a strategy make a step
\* fail (avg_loss = 0), the call returns a result with the Kelly weights and
\* optimization_success = false, and raises no exception.
C24_NeverRaises ==
    (calibration # NoCalibration /\ strategies # <<>>)
    => /\ ~HasKey(calibration, "raised")
       /\ HasKey(calibration, "kelly_weights")

====
